---- MODULE Spec2Model ----
(***************************************************************************)
(* Hot-exit session capture / restore coordinator of vmark                 *)
(* (src-tauri/src/hot_exit).  The module models                            *)
(*   - capture_session and its response listener (coordinator.rs),         *)
(*   - the pending-restore structure and both restore operations,          *)
(*   - write_session_atomic / read_session / delete_session (storage.rs).  *)
(* Window labels are strings; a capture id "capture-<millis>" is modelled  *)
(* by its millisecond value.                                               *)
(***************************************************************************)
EXTENDS Integers, Sequences, FiniteSets, TLC

(* ------------------------------ bounds --------------------------------- *)

\* number of capture rounds the process starts
MaxRounds == 2

\* largest value of the millisecond clock
MaxClock == 1

\* restore operations the process starts
MaxRestores == 2

\* window states in a session handed to a restore operation
MaxSessionWindows == 2

\* largest value WINDOW_COUNTER reaches
MaxWindowCounter == 3

\* chunks the JSON text of a session is written in
JsonLen == 2

\* distinct sessions handed to write_session_atomic
MaxSessionId == 6

(* ------------------------ program constants ---------------------------- *)

SECONDS_PER_DAY == 86400

SCHEMA_VERSION == 1

MIN_SUPPORTED_VERSION == 1

MAX_SESSION_AGE_DAYS == 7

MAIN_WINDOW_LABEL == "main"

(* ------------------------------ labels --------------------------------- *)

\* every label of the model, in ascending lexicographic (String::cmp) order
LabelOrder == <<"doc-0", "doc-1", "doc-2", "doc-3", "doc-4", "doc-99", "main", "settings">>

AllLabels == {LabelOrder[i] : i \in 1..Len(LabelOrder)}

LabelRank(l) == CHOOSE i \in 1..Len(LabelOrder) : LabelOrder[i] = l

\* a.window_label.cmp(&b.window_label) == Less
LabelLess(a, b) == LabelRank(a) < LabelRank(b)

\* format!("doc-{}", count) for the values of WINDOW_COUNTER the model reaches
DocNames == <<"doc-0", "doc-1", "doc-2", "doc-3", "doc-4">>

\* label.starts_with("doc-")
StartsWithDoc(l) == l \in {DocNames[i] : i \in DOMAIN DocNames} \cup {"doc-99"}

\* the filter of capture_session: main + doc-*
IsDocumentWindow(l) == l = MAIN_WINDOW_LABEL \/ StartsWithDoc(l)

\* windows the registry can hold when a capture starts
RegistryLabels == {"main", "doc-0", "doc-1", "settings"}

\* labels a capture response can claim to come from
SenderLabels == {"main", "doc-0", "doc-1", "doc-99"}

\* a JSON value (serde_json::Value, and the text serde_json writes): t names
\* the kind, b, i, s hold a boolean, an integer, a string or the digits of a
\* float, kids the elements of an array or the members of an object, and k
\* the key under which the value sits in its object
JNull == [k |-> "", t |-> "null", b |-> FALSE, i |-> 0, s |-> "", kids |-> <<>>]

JBool(x) == [JNull EXCEPT !.t = "bool", !.b = x]

JInt(x) == [JNull EXCEPT !.t = "int", !.i = x]

JFloat(x) == [JNull EXCEPT !.t = "float", !.s = x]

JStr(x) == [JNull EXCEPT !.t = "str", !.s = x]

JArr(items) == [JNull EXCEPT !.t = "arr", !.kids = items]

JObj(members) == [JNull EXCEPT !.t = "obj", !.kids = members]

\* the member key: value of an object
Member(key, value) == [value EXCEPT !.k = key]

\* Option<T>: the empty sequence for None, a one-element sequence for Some
None == <<>>

Some(x) == <<x>>

\* f32 values: two finite ones, and the ones f32::classify calls Nan and Infinite
F32Finite == {"0.25", "0.5"}

F32NonFinite == {"NaN", "inf"}

\* the editor payload of a window state, opaque to the coordinator: of the
\* tabs, ui_state and geometry fields the model keeps active_tab_id and the
\* cursor_info of one document
PayloadA == [active_tab_id |-> None, cursor_info |-> None]

PayloadB ==
    [active_tab_id |-> Some("tab-1"),
     cursor_info |-> Some([percent_in_line |-> "0.5", block_anchor |-> None])]

PayloadC ==
    [active_tab_id |-> Some("tab-2"),
     cursor_info |-> Some([percent_in_line |-> "0.25",
                           block_anchor |-> Some(JObj(<<Member("row", JInt(1))>>))])]

Payloads == {PayloadA, PayloadB}

\* WindowState: the label, the main flag and the opaque rest
WindowState == [window_label : AllLabels, is_main_window : BOOLEAN, content : Payloads]

Rounds == 1..MaxRounds

CaptureIds == 0..MaxClock

VARIABLES
    registry,       \* app.webview_windows(): labels of the open windows
    now,            \* chrono::Utc::now().timestamp_millis()
    capPc,          \* per round: position inside capture_session
    capState,       \* per round: the CaptureState behind its mutex
    listeners,      \* rounds whose EVENT_CAPTURE_RESPONSE listener is registered
    waitResult,     \* per round: result of timeout(.., wait_for_all_responses)
    capRet,         \* per round: value returned by capture_session
    requests,       \* capture ids broadcast with EVENT_CAPTURE_REQUEST
    timeoutEvents,  \* rounds that emitted EVENT_CAPTURE_TIMEOUT
    lastOutcome,    \* per round: what its listener did with the last response it got
    windowCounter,  \* WINDOW_COUNTER of window_manager.rs
    pending,        \* PENDING_RESTORE: the PendingRestoreState behind its mutex
    resOp,          \* the restore operation in flight: its position and locals
    resRet,         \* value returned by the last restore operation
    restoreCount,   \* restore operations started so far
    signals,        \* labels EVENT_RESTORE_START was emitted to
    lastPull,       \* label and result of the last get_window_restore_state
    lastMark,       \* label and result of the last mark_window_restore_complete
    reported,       \* labels that called mark_window_restore_complete since the last staging
    lastPrep,       \* the last call of prepare_session_for_restore: its input and outcome
    files,          \* session.json, session.prev.json and the temporary file
    wrOp,           \* the write_session_atomic call in flight: position, session, file before
    wrRet,          \* result of the last write_session_atomic
    lastRead,       \* result of the last read_session
    stopped,        \* the process has stopped (crash, kill, power loss)
    hotExit,        \* the commands: position and result of hot_exit_capture,
                    \* result of the last hot_exit_clear_session
    lib             \* the last call of can_migrate, migrate_session or is_stale:
                    \* its arguments and what it returned

capVars == <<now, capPc, capState, listeners, waitResult, capRet,
             requests, timeoutEvents, lastOutcome>>

resVars == <<windowCounter, pending, resOp, resRet, restoreCount, signals, lastPull,
             lastMark, reported, lastPrep>>

stoVars == <<files, wrOp, wrRet, lastRead, stopped, hotExit>>

vars == <<registry, capVars, resVars, stoVars, lib>>

(* --------------------- restore: initial values ------------------------- *)

\* PendingRestoreState::default()
EmptyPending == [window_states |-> <<>>, expected_labels |-> {}, completed_windows |-> {}]

NoOp ==
    [op |-> "none", pc |-> "idle", secondary |-> <<>>, windows_created |-> <<>>,
     to_store |-> <<>>, expected |-> {}, target |-> "", registry_before |-> {},
     dropped |-> <<>>, session_windows |-> 0, restaged |-> FALSE]

NoResult == [kind |-> "none", err |-> "", windows_created |-> <<>>]

\* no get_window_restore_state call yet
NotPulled == [label |-> "", val |-> <<>>, fresh |-> FALSE]

\* no mark_window_restore_complete call yet; flip changes with every call
NotMarked == [label |-> "", ret |-> FALSE, flip |-> FALSE]

\* no restore operation has validated a session yet
NotPrepared ==
    [called |-> FALSE, op |-> "none", version |-> 0, timestamp |-> 0, empty |-> FALSE,
     ok |-> FALSE, out_version |-> 0]

\* the restore side before any restore operation
RestoreIdle ==
    /\ windowCounter = 0
    /\ pending = EmptyPending
    /\ resOp = NoOp
    /\ resRet = NoResult
    /\ restoreCount = 0
    /\ signals = {}
    /\ lastPull = NotPulled
    /\ lastMark = NotMarked
    /\ reported = {}
    /\ lastPrep = NotPrepared

(* ---------------------- storage: initial values ------------------------ *)

\* the value read_session fills in when it returns no session
NoSession ==
    [version |-> 0, timestamp |-> 0, vmark_version |-> "", windows |-> <<>>,
     workspace |-> None]

\* a path that does not exist
Absent == [exists |-> FALSE, text |-> JNull, len |-> 0]

\* a file holding the first n chunks of a JSON text
FileOf(text, n) == [exists |-> TRUE, text |-> text, len |-> n]

\* the call in flight: its position, its argument, the serialized text, the
\* chunks written, session.json as the call found it, and the step it failed at
NoWrite ==
    [pc |-> "idle", session |-> NoSession, json |-> JNull, written |-> 0,
     before |-> Absent, failed |-> "none"]

NoRead == [kind |-> "none", session |-> NoSession]

\* hot_exit_capture has yet to get the result of capture_session, and
\* hot_exit_clear_session has not been called
NoCommand == [pc |-> "capture", kind |-> "none", session |-> NoSession, cleared |-> "none"]

\* no call of the migration functions or of is_stale yet
NoCall ==
    [fn |-> "none", session |-> NoSession, max_age_days |-> 0, clock |-> 0,
     flag |-> FALSE, panicked |-> FALSE, ok |-> FALSE, out |-> NoSession,
     again |-> FALSE]

\* the storage side with nothing on disk
StorageIdle ==
    /\ files = [session |-> Absent, backup |-> Absent, tmp |-> Absent]
    /\ wrOp = NoWrite
    /\ wrRet = "none"
    /\ lastRead = NoRead
    /\ stopped = FALSE
    /\ hotExit = NoCommand
    /\ lib = NoCall

(* ---------------------- capture: pure helpers -------------------------- *)

NoState == [capture_id |-> -1, expected_windows |-> {}, responses |-> <<>>, via |-> <<>>]

NoRet == [kind |-> "none", err |-> "", version |-> 0, timestamp |-> 0, windows |-> <<>>]

\* a well-formed CaptureResponse payload, or a payload serde_json cannot parse
CaptureResponse ==
    {m \in [parses : {TRUE}, capture_id : CaptureIds, window_label : SenderLabels,
             state : [window_label : SenderLabels, is_main_window : BOOLEAN,
                      content : Payloads]] :
        m.state.window_label \in {m.window_label, "doc-99"}}
    \cup
    {[parses |-> FALSE, capture_id |-> 0, window_label |-> "main",
      state |-> [window_label |-> "main", is_main_window |-> FALSE, content |-> PayloadA]]}

\* C12 mutant: every window of the registry is enumerated
DocumentWindows_all(reg) == reg

\* the windows capture_session enumerates
DocumentWindows(reg) == {l \in reg : IsDocumentWindow(l)}

\* C4 mutant: the listener does not compare capture ids
IsStaleResponse_unchecked(st, m) == FALSE

\* response.capture_id != state.capture_id
IsStaleResponse(st, m) == m.capture_id # st.capture_id

\* !state.expected_windows.contains(&response.window_label)
IsUnexpectedWindow(st, m) == m.window_label \notin st.expected_windows

\* C5 mutant: the listener does not look for an earlier response of the window
IsDuplicateResponse_unchecked(st, m) == FALSE

\* state.responses.contains_key(&response.window_label)
IsDuplicateResponse(st, m) == m.window_label \in DOMAIN st.responses

\* C6 mutant: the self-reported label is stored as it came
NormalizeWindowLabel_keep(state, expected_label) == state

\* normalize_window_label
NormalizeWindowLabel(state, expected_label) ==
    IF state.window_label # expected_label
    THEN [state EXCEPT !.window_label = expected_label]
    ELSE state

\* HashMap::insert
MapInsert(map, k, v) == [x \in (DOMAIN map) \cup {k} |-> IF x = k THEN v ELSE map[x]]

\* what the listener of a round does with one event payload
ListenerOutcome(st, m) ==
    IF ~m.parses THEN "parse_error"
    ELSE IF IsStaleResponse(st, m) THEN "stale"
    ELSE IF IsUnexpectedWindow(st, m) THEN "unexpected"
    ELSE IF IsDuplicateResponse(st, m) THEN "duplicate"
    ELSE IF m.state.window_label # m.window_label THEN "normalized"
    ELSE "stored"

\* the CaptureState after the listener of a round handled one event payload;
\* via remembers the capture id each stored response carried
OnCaptureResponse(st, m) ==
    IF ListenerOutcome(st, m) \in {"normalized", "stored"}
    THEN [st EXCEPT
            !.responses = MapInsert(st.responses, m.window_label,
                                    NormalizeWindowLabel(m.state, m.window_label)),
            !.via = MapInsert(st.via, m.window_label, m.capture_id)]
    ELSE st

\* C1 mutant: the comparator orders by label alone
WindowLess_labelOnly(a, b) == LabelLess(a.window_label, b.window_label)

\* the comparator of windows_vec.sort_by: TRUE when a sorts before b
WindowLess(a, b) ==
    IF a.is_main_window /\ ~b.is_main_window THEN TRUE
    ELSE IF ~a.is_main_window /\ b.is_main_window THEN FALSE
    ELSE LabelLess(a.window_label, b.window_label)

\* insert x into the sorted sequence s, after the elements that do not sort after it
RECURSIVE InsertSorted(_, _)
InsertSorted(x, s) ==
    IF s = <<>> THEN <<x>>
    ELSE IF WindowLess(x, Head(s)) THEN <<x>> \o s
    ELSE <<Head(s)>> \o InsertSorted(x, Tail(s))

\* Vec::sort_by (stable) applied to the sequence s
RECURSIVE SortWindows(_)
SortWindows(s) ==
    IF s = <<>> THEN <<>>
    ELSE InsertSorted(s[Len(s)], SortWindows(SubSeq(s, 1, Len(s) - 1)))

\* the orders in which HashMap::values() can yield the stored states
ValueOrders(map) ==
    {s \in [1..Cardinality(DOMAIN map) -> DOMAIN map] :
        \A i, j \in DOMAIN s : i # j => s[i] # s[j]}

\* final_state.responses.values().cloned().collect() for the key order ord
CollectValues(map, ord) == [i \in DOMAIN ord |-> map[ord[i]]]

\* C29 mutant: the collected values are returned in the order of the map
BuildSession_unsorted(values, clock) ==
    [kind |-> "Ok", err |-> "", version |-> SCHEMA_VERSION,
     timestamp |-> clock \div 1000, windows |-> values]

\* the SessionData capture_session builds from the collected values
BuildSession(values, clock) ==
    [kind |-> "Ok", err |-> "", version |-> SCHEMA_VERSION,
     timestamp |-> clock \div 1000, windows |-> SortWindows(values)]

\* current.responses.len() >= expected in wait_for_all_responses
AllResponsesIn(st, expected) == Cardinality(DOMAIN st.responses) >= expected

\* C2 mutant: a timeout with any window missing is treated as a failure
NoResponses_anyMissing(got, expected) == got < expected

\* C3 mutant: a timeout without any response is not treated as a failure
NoResponses_never(got, expected) == FALSE

\* got_responses == 0 after a timeout: the critical failure
NoResponses(got, expected) == got = 0

ErrRet(msg) == [NoRet EXCEPT !.kind = "Err", !.err = msg]

\* C37 mutant: the rounds collect into one shared state: what the listener
\* of one round accepts is stored for every round that listens
Delivered_shared(ls, states, m) ==
    [r \in Rounds |->
        IF r \in ls /\ \E q \in ls : ListenerOutcome(states[q], m) \in {"normalized", "stored"}
        THEN [states[r] EXCEPT
                !.responses = MapInsert(states[r].responses, m.window_label,
                                        NormalizeWindowLabel(m.state, m.window_label)),
                !.via = MapInsert(states[r].via, m.window_label, m.capture_id)]
        ELSE states[r]]

\* the CaptureStates after an EVENT_CAPTURE_RESPONSE payload was emitted:
\* every registered listener has handled it under its own lock
Delivered(ls, states, m) ==
    [r \in Rounds |-> IF r \in ls THEN OnCaptureResponse(states[r], m) ELSE states[r]]

\* C28 mutant: the deadline does not end the wait
AfterElapsed_keepWaiting(pc) == "polling"

\* timeout(..) drops the waiting future when the deadline fires: the round
\* goes on behind the wait
AfterElapsed(pc) == "waited"

\* C25 mutant: the listener is not registered before the broadcast
Listening_late(ls, r) == ls

\* app.listen(EVENT_CAPTURE_RESPONSE, ..) adds the listener of the round
Listening(ls, r) == ls \cup {r}

(* ------------------------- capture: actions ---------------------------- *)

\* the clock advances
Tick ==
    /\ now < MaxClock
    /\ now' = now + 1
    /\ UNCHANGED <<lib, stoVars, resVars, registry, capPc, capState, listeners, waitResult, capRet,
                   requests, timeoutEvents, lastOutcome>>

\* capture_session up to app.listen: enumerate the document windows, fail when
\* there is none, else take the capture id from the clock, create the
\* CaptureState and register the response listener
CaptureStart(r) ==
    /\ capPc[r] = "idle"
    /\ IF DocumentWindows(registry) = {}
       THEN /\ capRet' = [capRet EXCEPT ![r] = ErrRet("No document windows to capture")]
            /\ capPc' = [capPc EXCEPT ![r] = "done"]
            /\ UNCHANGED <<capState, listeners>>
       ELSE /\ capState' = [capState EXCEPT ![r] =
                               [capture_id |-> now,
                                expected_windows |-> DocumentWindows(registry),
                                responses |-> <<>>, via |-> <<>>]]
            /\ listeners' = Listening(listeners, r)
            /\ capPc' = [capPc EXCEPT ![r] = "listening"]
            /\ UNCHANGED capRet
    /\ UNCHANGED <<lib, stoVars, resVars, registry, now, waitResult, requests, timeoutEvents, lastOutcome>>

\* app.emit(EVENT_CAPTURE_REQUEST): broadcast, or unlisten and fail
CaptureBroadcast(r) ==
    /\ capPc[r] = "listening"
    /\ \E emitted \in BOOLEAN :
         IF emitted
         THEN /\ requests' = requests \cup {capState[r].capture_id}
              /\ capPc' = [capPc EXCEPT ![r] = "polling"]
              /\ UNCHANGED <<listeners, capRet>>
         ELSE /\ listeners' = listeners \ {r}
              /\ capRet' = [capRet EXCEPT ![r] = ErrRet("Failed to emit capture request")]
              /\ capPc' = [capPc EXCEPT ![r] = "done"]
              /\ UNCHANGED requests
    /\ UNCHANGED <<lib, stoVars, resVars, registry, now, capState, waitResult, timeoutEvents, lastOutcome>>

\* one iteration of wait_for_all_responses: leave the loop when enough
\* responses are stored, else go to sleep for the poll interval
WaitPoll(r) ==
    /\ capPc[r] = "polling"
    /\ IF AllResponsesIn(capState[r], Cardinality(capState[r].expected_windows))
       THEN /\ waitResult' = [waitResult EXCEPT ![r] = "Ok"]
            /\ capPc' = [capPc EXCEPT ![r] = "waited"]
       ELSE /\ capPc' = [capPc EXCEPT ![r] = "sleeping"]
            /\ UNCHANGED waitResult
    /\ UNCHANGED <<lib, stoVars, resVars, registry, now, capState, listeners, capRet, requests,
                   timeoutEvents, lastOutcome>>

\* the poll interval ends before the deadline
WaitWake(r) ==
    /\ capPc[r] = "sleeping"
    /\ capPc' = [capPc EXCEPT ![r] = "polling"]
    /\ UNCHANGED <<lib, stoVars, resVars, registry, now, capState, listeners, waitResult, capRet,
                   requests, timeoutEvents, lastOutcome>>

\* the deadline ends the wait while the loop sleeps: timeout returns Err(Elapsed)
WaitElapsed(r) ==
    /\ capPc[r] = "sleeping"
    /\ waitResult' = [waitResult EXCEPT ![r] = "Elapsed"]
    /\ capPc' = [capPc EXCEPT ![r] = AfterElapsed(capPc[r])]
    /\ UNCHANGED <<lib, stoVars, resVars, registry, now, capState, listeners, capRet, requests,
                   timeoutEvents, lastOutcome>>

\* app.unlisten after the wait
CaptureUnlisten(r) ==
    /\ capPc[r] = "waited"
    /\ listeners' = listeners \ {r}
    /\ capPc' = [capPc EXCEPT ![r] = "unlistened"]
    /\ UNCHANGED <<lib, stoVars, resVars, registry, now, capState, waitResult, capRet, requests,
                   timeoutEvents, lastOutcome>>

\* the check of the wait's result: on a timeout emit EVENT_CAPTURE_TIMEOUT (a
\* failed emit is only logged) and fail when no response was stored
CaptureCheck(r) ==
    /\ capPc[r] = "unlistened"
    /\ IF waitResult[r] = "Elapsed"
       THEN /\ \E emitted \in BOOLEAN :
                 timeoutEvents' = IF emitted THEN timeoutEvents \cup {r} ELSE timeoutEvents
            /\ IF NoResponses(Cardinality(DOMAIN capState[r].responses),
                              Cardinality(capState[r].expected_windows))
               THEN /\ capRet' = [capRet EXCEPT ![r] =
                                    ErrRet("Capture timeout: no windows responded")]
                    /\ capPc' = [capPc EXCEPT ![r] = "done"]
               ELSE /\ capPc' = [capPc EXCEPT ![r] = "building"]
                    /\ UNCHANGED capRet
       ELSE /\ capPc' = [capPc EXCEPT ![r] = "building"]
            /\ UNCHANGED <<capRet, timeoutEvents>>
    /\ UNCHANGED <<lib, stoVars, resVars, registry, now, capState, listeners, waitResult, requests, lastOutcome>>

\* collect the stored states in the map's order, sort them, return the session
CaptureBuild(r) ==
    /\ capPc[r] = "building"
    /\ \E ord \in ValueOrders(capState[r].responses) :
         capRet' = [capRet EXCEPT ![r] =
                      BuildSession(CollectValues(capState[r].responses, ord), now)]
    /\ capPc' = [capPc EXCEPT ![r] = "done"]
    /\ UNCHANGED <<lib, stoVars, resVars, registry, now, capState, listeners, waitResult, requests,
                   timeoutEvents, lastOutcome>>

\* a window (or anything else on the event bus) emits EVENT_CAPTURE_RESPONSE:
\* every registered listener handles the payload under its own lock
DeliverResponse(m) ==
    /\ listeners # {}
    /\ capState' = Delivered(listeners, capState, m)
    /\ lastOutcome' = [r \in Rounds |->
                         IF r \in listeners THEN ListenerOutcome(capState[r], m)
                         ELSE lastOutcome[r]]
    /\ UNCHANGED <<lib, stoVars, resVars, registry, now, capPc, listeners, waitResult, capRet, requests,
                   timeoutEvents>>

CaptureStep(r) ==
    \/ CaptureStart(r)
    \/ CaptureBroadcast(r)
    \/ WaitPoll(r)
    \/ WaitWake(r)
    \/ WaitElapsed(r)
    \/ CaptureUnlisten(r)
    \/ CaptureCheck(r)
    \/ CaptureBuild(r)

InitCapture ==
    /\ registry \in SUBSET RegistryLabels
    /\ now = 0
    /\ capPc = [r \in Rounds |-> "idle"]
    /\ capState = [r \in Rounds |-> NoState]
    /\ listeners = {}
    /\ waitResult = [r \in Rounds |-> "none"]
    /\ capRet = [r \in Rounds |-> NoRet]
    /\ requests = {}
    /\ timeoutEvents = {}
    /\ lastOutcome = [r \in Rounds |-> "none"]
    /\ RestoreIdle
    /\ StorageIdle

\* SpecCapture runs one capture round against an arbitrary event bus
SingleRound == {1}

NextCapture ==
    \/ Tick
    \/ \E r \in SingleRound : CaptureStep(r)
    \/ \E m \in CaptureResponse : DeliverResponse(m)

SpecCapture == InitCapture /\ [][NextCapture]_vars

\* the responses the window main sends: each carries the id of a request
\* and the label of its sender; the document content changes from one
\* request to the next, so that the answer to one request can be told from
\* the answer to the next
WindowResponses ==
    {m \in CaptureResponse :
        /\ m.parses
        /\ m.window_label = MAIN_WINDOW_LABEL
        /\ m.state.window_label = m.window_label
        /\ m.state.is_main_window
        /\ m.state.content = IF m.capture_id % 2 = 0 THEN PayloadA ELSE PayloadB}

\* a call of capture_session begins; the rounds are numbered in the order
\* in which they start
RoundStart(r) ==
    /\ \A q \in Rounds : q < r => capPc[q] # "idle"
    /\ CaptureStart(r)

InitRounds ==
    /\ registry = {"main"}
    /\ now = 0
    /\ capPc = [r \in Rounds |-> "idle"]
    /\ capState = [r \in Rounds |-> NoState]
    /\ listeners = {}
    /\ waitResult = [r \in Rounds |-> "none"]
    /\ capRet = [r \in Rounds |-> NoRet]
    /\ requests = {}
    /\ timeoutEvents = {}
    /\ lastOutcome = [r \in Rounds |-> "none"]
    /\ RestoreIdle
    /\ StorageIdle

\* SpecRounds runs every round of the process, one after another or
\* overlapping, against the window main
NextRounds ==
    \/ Tick
    \/ \E r \in Rounds : RoundStart(r)
    \/ \E r \in Rounds : CaptureBroadcast(r)
    \/ \E r \in Rounds : WaitPoll(r)
    \/ \E r \in Rounds : WaitWake(r)
    \/ \E r \in Rounds : WaitElapsed(r)
    \/ \E r \in Rounds : CaptureUnlisten(r)
    \/ \E r \in Rounds : CaptureCheck(r)
    \/ \E r \in Rounds : CaptureBuild(r)
    \/ \E m \in WindowResponses : DeliverResponse(m)

SpecRounds == InitRounds /\ [][NextRounds]_vars

\* SpecCaptureLive: one round with only the window main answering. The
\* runtime goes on polling the future of the call, so every step of the
\* round that stays possible is taken; the deadline of timeout(..) fires
\* after finitely many poll intervals, so it ends the wait at one of the
\* sleeps of the loop. Nothing makes a window respond.
NextCaptureLive ==
    \/ Tick
    \/ \E r \in SingleRound : CaptureStart(r)
    \/ \E r \in SingleRound : CaptureBroadcast(r)
    \/ \E r \in SingleRound : WaitPoll(r)
    \/ \E r \in SingleRound : WaitWake(r)
    \/ \E r \in SingleRound : WaitElapsed(r)
    \/ \E r \in SingleRound : CaptureUnlisten(r)
    \/ \E r \in SingleRound : CaptureCheck(r)
    \/ \E r \in SingleRound : CaptureBuild(r)
    \/ \E m \in WindowResponses : DeliverResponse(m)

SpecCaptureLive ==
    /\ InitCapture
    /\ [][NextCaptureLive]_vars
    /\ \A r \in SingleRound :
          /\ WF_vars(CaptureBroadcast(r))
          /\ WF_vars(WaitPoll(r))
          /\ SF_vars(WaitElapsed(r))
          /\ WF_vars(CaptureUnlisten(r))
          /\ WF_vars(CaptureCheck(r))
          /\ WF_vars(CaptureBuild(r))

(* ---------------------- restore: pure helpers -------------------------- *)

\* chrono::Utc::now().timestamp() while the restore operations run
RestoreNow == 1000000

\* i64::MAX and i64::MIN; the model's signed integers are 28 bits wide
IntMax == 134217727

IntMin == -134217728

\* a - b on i64 where the difference leaves the range (wrapping, as in a
\* build without overflow checks)
WrappingSub(a, b) ==
    LET d == a - b
    IN  IF d > IntMax THEN d - 2 * (IntMax + 1)
        ELSE IF d < IntMin THEN d + 2 * (IntMax + 1)
        ELSE d

\* i64::checked_mul for two positive factors: None when the product
\* exceeds i64::MAX
CheckedMul(a, b) ==
    IF a > IntMax \div b THEN [some |-> FALSE, val |-> 0]
    ELSE [some |-> TRUE, val |-> a * b]

\* now - self.timestamp leaves the range of i64; reached only after the
\* max_age_days guard
AgeOverflows(timestamp, max_age_days, clock) ==
    /\ max_age_days > 0
    /\ (clock - timestamp > IntMax \/ clock - timestamp < IntMin)

\* C13 mutant: a timestamp in the future is not treated as stale
IsStale_futureTrusted(timestamp, max_age_days, clock) ==
    IF max_age_days <= 0 THEN TRUE
    ELSE clock - timestamp > max_age_days * SECONDS_PER_DAY

\* C24 mutant: max_age_days is not checked for being positive
IsStale_anyAge(timestamp, max_age_days, clock) ==
    LET age_seconds == WrappingSub(clock, timestamp)
    IN  IF age_seconds < 0 THEN TRUE
        ELSE IF max_age_days <= 0 THEN age_seconds > 0
        ELSE LET max_age_seconds == CheckedMul(max_age_days, SECONDS_PER_DAY)
             IN  IF max_age_seconds.some THEN age_seconds > max_age_seconds.val
                 ELSE TRUE

\* SessionData::is_stale
IsStale(timestamp, max_age_days, clock) ==
    IF max_age_days <= 0 THEN TRUE
    ELSE LET age_seconds == WrappingSub(clock, timestamp)
         IN  IF age_seconds < 0 THEN TRUE
             ELSE LET max_age_seconds == CheckedMul(max_age_days, SECONDS_PER_DAY)
                  IN  IF max_age_seconds.some THEN age_seconds > max_age_seconds.val
                      ELSE TRUE

\* C22 mutant: no lower limit on the version
CanMigrate_noFloor(version) == version <= SCHEMA_VERSION

\* migration::can_migrate
CanMigrate(version) ==
    IF version < MIN_SUPPORTED_VERSION THEN FALSE
    ELSE IF version <= SCHEMA_VERSION THEN TRUE
    ELSE FALSE

\* migration::needs_migration
NeedsMigration(session) == session.version < SCHEMA_VERSION

Good(session) == [ok |-> TRUE, err |-> "", session |-> session]

Bad(session, msg) == [ok |-> FALSE, err |-> msg, session |-> session]

\* migration::migrate_to_next_version (migrate_v1_to_v2 for version 1)
MigrateToNextVersion(session) ==
    IF session.version = 1 THEN Good([session EXCEPT !.version = 2])
    ELSE Bad(session, "No migration path")

\* the while loop of migrate_session
RECURSIVE MigrateLoop(_)
MigrateLoop(session) ==
    IF session.version < SCHEMA_VERSION
    THEN LET step == MigrateToNextVersion(session)
         IN  IF step.ok THEN MigrateLoop(step.session) ELSE step
    ELSE Good(session)

\* C23 mutant: the version is not validated first
MigrateSession_noGate(session) ==
    IF session.version = SCHEMA_VERSION THEN Good(session)
    ELSE MigrateLoop(session)

\* migration::migrate_session
MigrateSession(session) ==
    IF ~CanMigrate(session.version) THEN Bad(session, "Cannot migrate session")
    ELSE IF session.version = SCHEMA_VERSION THEN Good(session)
    ELSE MigrateLoop(session)

\* prepare_session_for_restore
PrepareSessionForRestore(session, clock) ==
    LET migrated == IF NeedsMigration(session) THEN MigrateSession(session)
                    ELSE IF ~CanMigrate(session.version)
                         THEN Bad(session, "Incompatible session version")
                         ELSE Good(session)
    IN  IF ~migrated.ok THEN migrated
        ELSE IF IsStale(migrated.session.timestamp, MAX_SESSION_AGE_DAYS, clock)
             THEN Bad(migrated.session, "Session is too old")
             ELSE migrated

\* session.windows.iter().find(|w| w.is_main_window).or_else(|| first()):
\* the empty sequence for None, a one-element sequence for Some
RECURSIVE FindMain(_)
FindMain(windows) ==
    IF windows = <<>> THEN <<>>
    ELSE IF Head(windows).is_main_window THEN <<Head(windows)>>
    ELSE FindMain(Tail(windows))

\* C14 mutant: the first entry is taken whatever its flag
MainState_first(windows) == IF windows # <<>> THEN <<Head(windows)>> ELSE <<>>

\* .find(|w| w.is_main_window).or_else(|| session.windows.first()).cloned()
MainState(windows) ==
    IF FindMain(windows) # <<>> THEN FindMain(windows)
    ELSE IF windows # <<>> THEN <<Head(windows)>>
    ELSE <<>>

\* session.windows.iter().filter(|w| !w.is_main_window).cloned().collect()
RECURSIVE SecondaryWindows(_)
SecondaryWindows(windows) ==
    IF windows = <<>> THEN <<>>
    ELSE IF ~Head(windows).is_main_window
         THEN <<Head(windows)>> \o SecondaryWindows(Tail(windows))
         ELSE SecondaryWindows(Tail(windows))

\* C36 mutant: a failing call clears what was staged
PendingOnError_cleared(p) == EmptyPending

\* PENDING_RESTORE after a `?` or ok_or left the restore operation before
\* init_pending_restore_state_sync: the structure was not locked at all
PendingOnError(p) == p

\* C32 mutant: any document window may be taken, main or not
TargetWindows_anyDoc(reg) == {l \in reg : l = MAIN_WINDOW_LABEL \/ StartsWithDoc(l)}

\* the windows restore_session may resolve as its target:
\* get_webview_window(MAIN_WINDOW_LABEL), or else a window of
\* webview_windows() (a map, in no fixed order) whose label starts with "doc-"
TargetWindows(reg) ==
    IF MAIN_WINDOW_LABEL \in reg THEN {MAIN_WINDOW_LABEL}
    ELSE {l \in reg : StartsWithDoc(l)}

\* the insert loop of init_pending_restore_state_sync
RECURSIVE InsertAll(_, _)
InsertAll(map, pairs) ==
    IF pairs = <<>> THEN map
    ELSE InsertAll(MapInsert(map, Head(pairs)[1], Head(pairs)[2]), Tail(pairs))

\* C38 mutant: the completed set outlives the clear
Clear_keepCompleted(p) == [p EXCEPT !.window_states = <<>>, !.expected_labels = {}]

\* C17 mutant: staging keeps what is there
Clear_none(p) == p

\* PendingRestoreState::clear
Clear(p) ==
    [window_states |-> <<>>, expected_labels |-> {}, completed_windows |-> {}]

\* C27 mutant: the states are not inserted by the time the function returns
InitPendingRestoreState_labelsOnly(p, pairs, expected_labels) ==
    [Clear(p) EXCEPT !.expected_labels = expected_labels]

\* init_pending_restore_state_sync: clear, set the expected labels, insert
InitPendingRestoreState(p, pairs, expected_labels) ==
    LET cleared == Clear(p)
    IN  [cleared EXCEPT !.expected_labels = expected_labels,
                        !.window_states = InsertAll(cleared.window_states, pairs)]

\* C39 mutant: nothing expected counts as everything completed
AllComplete_vacuous(p) ==
    \A label \in p.expected_labels : label \in p.completed_windows

\* C8 mutant: one completed expected window is enough
AllComplete_any(p) ==
    \E label \in p.expected_labels : label \in p.completed_windows

\* PendingRestoreState::all_complete
AllComplete(p) ==
    /\ p.expected_labels # {}
    /\ \A label \in p.expected_labels : label \in p.completed_windows

\* C9 mutant: every caller is counted as completed
MarkWindow_any(p, window_label) ==
    [p EXCEPT !.completed_windows = p.completed_windows \cup {window_label}]

\* the state update of mark_window_restore_complete
MarkWindow(p, window_label) ==
    IF window_label \in p.expected_labels
    THEN [p EXCEPT !.completed_windows = p.completed_windows \cup {window_label}]
    ELSE p

\* C16 mutant: the pull takes the entry out of the map
PendingAfterPull_take(p, window_label) ==
    [p EXCEPT !.window_states =
        [l \in DOMAIN p.window_states \ {window_label} |-> p.window_states[l]]]

\* the structure after get_window_restore_state: get() and cloned() on the
\* locked map change nothing
PendingAfterPull(p, window_label) == p

\* a staging or a clear ends the validity of what the last pull returned
Outdated(pull) == [pull EXCEPT !.fresh = FALSE]

\* get_window_restore_state: state.window_states.get(window_label).cloned()
GetWindowRestoreState(p, window_label) ==
    IF window_label \in DOMAIN p.window_states
    THEN <<p.window_states[window_label]>>
    ELSE <<>>

\* the sessions handed to a restore operation: the i-th window state carries
\* the i-th payload, so that each state can be told from the others
PayloadAt == <<PayloadA, PayloadB, PayloadC>>

\* the label a window state was captured under in the previous run
SavedLabel(is_main_window) == IF is_main_window THEN "main" ELSE "doc-99"

SessionWindows ==
    UNION {{[i \in 1..n |-> [window_label |-> SavedLabel(flags[i]),
                             is_main_window |-> flags[i],
                             content |-> PayloadAt[i]]] : flags \in [1..n -> BOOLEAN]}
           : n \in 0..MaxSessionWindows}

SessionTimestamps ==
    {RestoreNow - 8 * SECONDS_PER_DAY, RestoreNow - 6 * SECONDS_PER_DAY,
     RestoreNow + SECONDS_PER_DAY}

SessionInputs ==
    [version : 0..(SCHEMA_VERSION + 1), timestamp : SessionTimestamps,
     windows : SessionWindows]

ErrResult(msg) == [kind |-> "Err", err |-> msg, windows_created |-> <<>>]

\* what a call of prepare_session_for_restore was given and what it returned
Prepared(op, session, prep) ==
    [called |-> TRUE, op |-> op, version |-> session.version, timestamp |-> session.timestamp,
     empty |-> (session.windows = <<>>), ok |-> prep.ok,
     out_version |-> prep.session.version]

\* the Ok arm of the creation loop: the new label is expected, its state is
\* kept for staging, and the label is reported as created
CreatedOk(op, new_label, updated_state) ==
    [op EXCEPT !.secondary = Tail(op.secondary),
               !.expected = op.expected \cup {new_label},
               !.to_store = Append(op.to_store, <<new_label, updated_state>>),
               !.windows_created = Append(op.windows_created, new_label)]

\* C15 mutant: a window that could not be created is expected all the same
CreatedErr_expected(op, new_label) ==
    [op EXCEPT !.secondary = Tail(op.secondary),
               !.dropped = Append(op.dropped, Head(op.secondary)),
               !.expected = op.expected \cup {new_label}]

\* the Err arm of the creation loop: the window state is dropped
CreatedErr(op, new_label) ==
    [op EXCEPT !.secondary = Tail(op.secondary),
               !.dropped = Append(op.dropped, Head(op.secondary))]

(* ------------------------- restore: actions ---------------------------- *)

\* restore_session_multi_window up to the creation loop: validate the session,
\* look up the main window, pick the main state and the secondary windows
RestoreMultiBegin(session) ==
    /\ resOp.op = "none"
    /\ restoreCount < MaxRestores
    /\ windowCounter + Len(session.windows) <= MaxWindowCounter
    /\ restoreCount' = restoreCount + 1
    /\ lastPrep' = Prepared("multi", session, PrepareSessionForRestore(session, RestoreNow))
    /\ LET prep == PrepareSessionForRestore(session, RestoreNow)
           main_state == MainState(prep.session.windows)
       IN  IF ~prep.ok
           THEN /\ resRet' = ErrResult(prep.err)
                /\ pending' = PendingOnError(pending)
                /\ UNCHANGED resOp
           ELSE IF MAIN_WINDOW_LABEL \notin registry
           THEN /\ resRet' = ErrResult("Main window not found")
                /\ pending' = PendingOnError(pending)
                /\ UNCHANGED resOp
           ELSE /\ UNCHANGED pending
                /\ resOp' =
                     [op |-> "multi", pc |-> "creating",
                      secondary |-> SecondaryWindows(prep.session.windows),
                      windows_created |-> <<>>,
                      to_store |->
                          IF main_state # <<>>
                          THEN << <<MAIN_WINDOW_LABEL,
                                    [main_state[1] EXCEPT
                                        !.window_label = MAIN_WINDOW_LABEL,
                                        !.is_main_window = TRUE]>> >>
                          ELSE <<>>,
                      expected |-> {MAIN_WINDOW_LABEL},
                      target |-> MAIN_WINDOW_LABEL,
                      registry_before |-> registry,
                      dropped |-> <<>>,
                      session_windows |-> Len(prep.session.windows),
                      restaged |-> FALSE]
                /\ resRet' = NoResult
    /\ UNCHANGED <<lib, registry, windowCounter, signals, lastPull, lastMark,
                   reported, capVars, stoVars>>

\* one iteration of the creation loop: create_document_window takes the next
\* label from WINDOW_COUNTER and builds the window, or fails
RestoreMultiCreate ==
    /\ resOp.op = "multi" /\ resOp.pc = "creating"
    /\ resOp.secondary # <<>>
    /\ windowCounter' = windowCounter + 1
    /\ LET new_label == DocNames[windowCounter + 1]
           updated_state == [Head(resOp.secondary) EXCEPT
                                !.window_label = new_label,
                                !.is_main_window = FALSE]
       IN  \E built \in BOOLEAN :
             IF built
             THEN /\ registry' = registry \cup {new_label}
                  /\ resOp' = CreatedOk(resOp, new_label, updated_state)
             ELSE /\ resOp' = CreatedErr(resOp, new_label)
                  /\ UNCHANGED registry
    /\ UNCHANGED <<lib, pending, resRet, restoreCount, signals, lastPull, lastMark,
                   reported, lastPrep, capVars, stoVars>>

\* after the loop: init_pending_restore_state_sync with everything collected
RestoreMultiStage ==
    /\ resOp.op = "multi" /\ resOp.pc = "creating"
    /\ resOp.secondary = <<>>
    /\ pending' = InitPendingRestoreState(pending, resOp.to_store, resOp.expected)
    /\ reported' = {}
    /\ resOp' = [resOp EXCEPT !.pc = "signal", !.restaged = (pending' # pending)]
    /\ lastPull' = Outdated(lastPull)
    /\ UNCHANGED <<lib, registry, windowCounter, resRet, restoreCount, signals,
                   lastMark, lastPrep, capVars, stoVars>>

\* restore_session up to the staging: validate the session, resolve the target
\* window, pick the state, stage it under the target label
RestoreSingleStage(session) ==
    /\ resOp.op = "none"
    /\ restoreCount < MaxRestores
    /\ restoreCount' = restoreCount + 1
    /\ lastPrep' = Prepared("single", session, PrepareSessionForRestore(session, RestoreNow))
    /\ LET prep == PrepareSessionForRestore(session, RestoreNow)
           targets == TargetWindows(registry)
           main_state == MainState(prep.session.windows)
       IN  IF ~prep.ok
           THEN /\ resRet' = ErrResult(prep.err)
                /\ pending' = PendingOnError(pending)
                /\ UNCHANGED <<resOp, reported, lastPull>>
           ELSE IF targets = {}
           THEN /\ resRet' = ErrResult("No document window found for restore")
                /\ pending' = PendingOnError(pending)
                /\ UNCHANGED <<resOp, reported, lastPull>>
           ELSE IF main_state = <<>>
           THEN /\ resRet' = ErrResult("No window state in session")
                /\ pending' = PendingOnError(pending)
                /\ UNCHANGED <<resOp, reported, lastPull>>
           ELSE \E target_label \in targets :
                  /\ pending' = InitPendingRestoreState(pending,
                                    << <<target_label,
                                         [main_state[1] EXCEPT
                                             !.window_label = target_label]>> >>,
                                    {target_label})
                  /\ reported' = {}
                  /\ lastPull' = Outdated(lastPull)
                  /\ resOp' = [NoOp EXCEPT !.op = "single", !.pc = "signal",
                                           !.target = target_label,
                                           !.registry_before = registry,
                                           !.restaged = (pending' # pending)]
                  /\ resRet' = NoResult
    /\ UNCHANGED <<lib, registry, windowCounter, signals, lastMark, capVars, stoVars>>

\* emit EVENT_RESTORE_START to the target window and return
RestoreSignal ==
    /\ resOp.pc = "signal"
    /\ \E emitted \in BOOLEAN :
         IF emitted
         THEN /\ signals' = signals \cup {resOp.target}
              /\ resRet' = [kind |-> "Ok", err |-> "",
                            windows_created |-> resOp.windows_created]
         ELSE /\ resRet' = ErrResult("Failed to emit restore event")
              /\ UNCHANGED signals
    /\ resOp' = NoOp
    /\ UNCHANGED <<lib, registry, windowCounter, pending, restoreCount, lastPull, lastMark,
                   reported, lastPrep, capVars, stoVars>>

\* a document window calls get_window_restore_state with its own label
PullWindowState(l) ==
    /\ l \in registry /\ IsDocumentWindow(l)
    /\ lastPull' = [label |-> l, val |-> GetWindowRestoreState(pending, l),
                    fresh |-> TRUE]
    /\ pending' = PendingAfterPull(pending, l)
    /\ UNCHANGED <<lib, registry, windowCounter, resOp, resRet, restoreCount,
                   signals, lastMark, reported, lastPrep, capVars, stoVars>>

\* a window calls mark_window_restore_complete with its own label
MarkWindowRestoreComplete(l) ==
    /\ l \in registry
    /\ pending' = MarkWindow(pending, l)
    /\ lastMark' = [label |-> l, ret |-> AllComplete(pending'), flip |-> ~lastMark.flip]
    /\ reported' = reported \cup {l}
    /\ UNCHANGED <<lib, registry, windowCounter, resOp, resRet, restoreCount, signals,
                   lastPull, lastPrep, capVars, stoVars>>

\* clear_pending_restore
ClearPendingRestore ==
    /\ pending' = Clear(pending)
    /\ reported' = {}
    /\ lastPull' = Outdated(lastPull)
    /\ UNCHANGED <<lib, registry, windowCounter, resOp, resRet, restoreCount, signals,
                   lastMark, lastPrep, capVars, stoVars>>

InitRestore ==
    /\ registry \in {{"main"}, {"main", "settings"}, {"settings"}, {"doc-99"}}
    /\ now = 0
    /\ capPc = [r \in Rounds |-> "idle"]
    /\ capState = [r \in Rounds |-> NoState]
    /\ listeners = {}
    /\ waitResult = [r \in Rounds |-> "none"]
    /\ capRet = [r \in Rounds |-> NoRet]
    /\ requests = {}
    /\ timeoutEvents = {}
    /\ lastOutcome = [r \in Rounds |-> "none"]
    /\ RestoreIdle
    /\ StorageIdle

\* the restore operations and the windows pulling their state
NextRestore ==
    \/ \E session \in SessionInputs : RestoreMultiBegin(session)
    \/ RestoreMultiCreate
    \/ RestoreMultiStage
    \/ \E session \in SessionInputs : RestoreSingleStage(session)
    \/ RestoreSignal
    \/ \E l \in AllLabels : PullWindowState(l)
    \/ ClearPendingRestore

SpecRestore == InitRestore /\ [][NextRestore]_vars

\* the restore operations and the windows signalling completion
NextComplete ==
    \/ \E session \in SessionInputs : RestoreMultiBegin(session)
    \/ RestoreMultiCreate
    \/ RestoreMultiStage
    \/ \E session \in SessionInputs : RestoreSingleStage(session)
    \/ RestoreSignal
    \/ \E l \in AllLabels : MarkWindowRestoreComplete(l)
    \/ ClearPendingRestore

SpecComplete == InitRestore /\ [][NextComplete]_vars

(* ---------------------- storage: pure helpers -------------------------- *)

\* Serialize for Option<String>
SerOptString_empty(o) == IF o = None THEN JStr("") ELSE JStr(o[1])

SerOptString(o) == IF o = None THEN JNull ELSE JStr(o[1])

\* serde_json's serialize_f32: a number, or null for NaN and the infinities
SerF32(f) == IF f \in F32NonFinite THEN JNull ELSE JFloat(f)

\* Serialize for Option<serde_json::Value>: the value itself, or null
SerOptValue(o) == IF o = None THEN JNull ELSE o[1]

\* derived Serialize of CursorInfo
SerCursorInfo(c) ==
    JObj(<<Member("percent_in_line", SerF32(c.percent_in_line)),
           Member("block_anchor", SerOptValue(c.block_anchor))>>)

SerOptCursorInfo(o) == IF o = None THEN JNull ELSE SerCursorInfo(o[1])

\* derived Serialize of WindowState
SerWindowState(w) ==
    JObj(<<Member("window_label", JStr(w.window_label)),
           Member("is_main_window", JBool(w.is_main_window)),
           Member("active_tab_id", SerOptString(w.content.active_tab_id)),
           Member("cursor_info", SerOptCursorInfo(w.content.cursor_info))>>)

\* derived Serialize of WorkspaceState
SerWorkspaceState(ws) ==
    JObj(<<Member("root_path", SerOptString(ws.root_path)),
           Member("is_workspace_mode", JBool(ws.is_workspace_mode)),
           Member("show_hidden_files", JBool(ws.show_hidden_files))>>)

\* serde_json::to_string_pretty(session)
ToStringPretty(session) ==
    JObj(<<Member("version", JInt(session.version)),
           Member("timestamp", JInt(session.timestamp)),
           Member("vmark_version", JStr(session.vmark_version)),
           Member("windows",
                  JArr([i \in DOMAIN session.windows |->
                            SerWindowState(session.windows[i])])),
           Member("workspace",
                  IF session.workspace = None THEN JNull
                  ELSE SerWorkspaceState(session.workspace[1]))>>)

\* the outcome of deserializing one value
ParseOk(v) == [ok |-> TRUE, val |-> v]

ParseErr == [ok |-> FALSE, val |-> <<>>]

HasMember(obj, key) == \E i \in DOMAIN obj.kids : obj.kids[i].k = key

\* the member of obj under key; a missing member reads as null
Get(obj, key) ==
    IF HasMember(obj, key)
    THEN obj.kids[CHOOSE i \in DOMAIN obj.kids : obj.kids[i].k = key]
    ELSE JNull

\* a field that is not an Option must be present
Required(obj, key) == obj.t = "obj" /\ HasMember(obj, key)

DeString(n) == IF n.t = "str" THEN ParseOk(n.s) ELSE ParseErr

DeBool(n) == IF n.t = "bool" THEN ParseOk(n.b) ELSE ParseErr

DeInt(n) == IF n.t = "int" THEN ParseOk(n.i) ELSE ParseErr

\* Deserialize for f32: a number is accepted, null is not (every f32 of this
\* model is written with a fraction)
DeF32(n) == IF n.t = "float" THEN ParseOk(n.s) ELSE ParseErr

DeOptString(n) ==
    IF n.t = "null" THEN ParseOk(None)
    ELSE IF DeString(n).ok THEN ParseOk(Some(DeString(n).val)) ELSE ParseErr

\* Deserialize for Option<serde_json::Value>: null is None, anything else Some
DeOptValue(n) == IF n.t = "null" THEN ParseOk(None) ELSE ParseOk(Some([n EXCEPT !.k = ""]))

\* derived Deserialize of CursorInfo
DeCursorInfo(n) ==
    IF ~Required(n, "percent_in_line") THEN ParseErr
    ELSE LET percent == DeF32(Get(n, "percent_in_line"))
             anchor == DeOptValue(Get(n, "block_anchor"))
         IN  IF percent.ok /\ anchor.ok
             THEN ParseOk([percent_in_line |-> percent.val, block_anchor |-> anchor.val])
             ELSE ParseErr

DeOptCursorInfo(n) ==
    IF n.t = "null" THEN ParseOk(None)
    ELSE IF DeCursorInfo(n).ok THEN ParseOk(Some(DeCursorInfo(n).val)) ELSE ParseErr

\* derived Deserialize of WindowState
DeWindowState(n) ==
    IF ~(Required(n, "window_label") /\ Required(n, "is_main_window")) THEN ParseErr
    ELSE LET label == DeString(Get(n, "window_label"))
             flag == DeBool(Get(n, "is_main_window"))
             tab == DeOptString(Get(n, "active_tab_id"))
             cursor == DeOptCursorInfo(Get(n, "cursor_info"))
         IN  IF label.ok /\ flag.ok /\ tab.ok /\ cursor.ok
             THEN ParseOk([window_label |-> label.val, is_main_window |-> flag.val,
                           content |-> [active_tab_id |-> tab.val,
                                        cursor_info |-> cursor.val]])
             ELSE ParseErr

\* derived Deserialize of WorkspaceState
DeWorkspaceState(n) ==
    IF ~(Required(n, "is_workspace_mode") /\ Required(n, "show_hidden_files")) THEN ParseErr
    ELSE LET root == DeOptString(Get(n, "root_path"))
             mode == DeBool(Get(n, "is_workspace_mode"))
             hidden == DeBool(Get(n, "show_hidden_files"))
         IN  IF root.ok /\ mode.ok /\ hidden.ok
             THEN ParseOk([root_path |-> root.val, is_workspace_mode |-> mode.val,
                           show_hidden_files |-> hidden.val])
             ELSE ParseErr

\* Deserialize for Vec<WindowState>
DeWindows(n) ==
    IF n.t # "arr" THEN ParseErr
    ELSE IF \A i \in DOMAIN n.kids : DeWindowState(n.kids[i]).ok
         THEN ParseOk([i \in DOMAIN n.kids |-> DeWindowState(n.kids[i]).val])
         ELSE ParseErr

\* serde_json::from_str::<SessionData>(&contents)
FromStr(text) ==
    IF ~(/\ Required(text, "version") /\ Required(text, "timestamp")
         /\ Required(text, "vmark_version") /\ Required(text, "windows"))
    THEN ParseErr
    ELSE LET version == DeInt(Get(text, "version"))
             timestamp == DeInt(Get(text, "timestamp"))
             vmark_version == DeString(Get(text, "vmark_version"))
             windows == DeWindows(Get(text, "windows"))
             workspace == IF Get(text, "workspace").t = "null" THEN ParseOk(None)
                          ELSE IF DeWorkspaceState(Get(text, "workspace")).ok
                               THEN ParseOk(Some(DeWorkspaceState(Get(text, "workspace")).val))
                               ELSE ParseErr
         IN  IF /\ version.ok /\ timestamp.ok /\ vmark_version.ok
                /\ windows.ok /\ workspace.ok
             THEN ParseOk([version |-> version.val, timestamp |-> timestamp.val,
                           vmark_version |-> vmark_version.val,
                           windows |-> windows.val, workspace |-> workspace.val])
             ELSE ParseErr

\* env!("CARGO_PKG_VERSION")
CargoPkgVersion == "0.1.0"

\* a window state whose cursor carries the given f32 and block anchor
CursorWindow(percent, anchor) ==
    [window_label |-> "main", is_main_window |-> TRUE,
     content |-> [active_tab_id |-> Some("tab-1"),
                  cursor_info |-> Some([percent_in_line |-> percent,
                                        block_anchor |-> anchor])]]

SessionWith(windows, workspace) ==
    [version |-> SCHEMA_VERSION, timestamp |-> RestoreNow \div 1000,
     vmark_version |-> CargoPkgVersion, windows |-> windows, workspace |-> workspace]

\* sessions handed to write_session_atomic: every Option as None and as Some,
\* no window and two windows, and the f32 and Value cases JSON has no text for
SessionSamples ==
    <<SessionWith(<<[window_label |-> "main", is_main_window |-> TRUE,
                     content |-> PayloadA]>>, None),
      SessionWith(<<[window_label |-> "main", is_main_window |-> TRUE,
                     content |-> PayloadB],
                    [window_label |-> "doc-0", is_main_window |-> FALSE,
                     content |-> PayloadC]>>,
                  Some([root_path |-> Some("/w"), is_workspace_mode |-> TRUE,
                        show_hidden_files |-> FALSE])),
      SessionWith(<<>>, Some([root_path |-> None, is_workspace_mode |-> FALSE,
                              show_hidden_files |-> TRUE])),
      SessionWith(<<CursorWindow("NaN", None)>>, None),
      SessionWith(<<CursorWindow("inf", None)>>, None),
      SessionWith(<<CursorWindow("0.5", Some(JNull))>>, None)>>

\* the sid-th session; past the samples, the first one captured at another time
SessionTable(sid) ==
    IF sid \in DOMAIN SessionSamples THEN SessionSamples[sid]
    ELSE [SessionSamples[1] EXCEPT !.timestamp = sid]

SessionIds == 1..MaxSessionId

StorageSessions == {SessionTable(sid) : sid \in SessionIds}

\* a file that exists holds the whole text of a session
Complete(f) == f.exists /\ f.len = JsonLen

\* NamedTempFile::new_in: an empty file beside session.json
CreateTemp(fs) == [fs EXCEPT !.tmp = FileOf(JNull, 0)]

\* C10 mutant: the JSON text is written to session.json itself
WriteChunk_inPlace(fs, json, written) == [fs EXCEPT !.session = FileOf(json, written + 1)]

\* write_all puts the next chunk of the JSON text into the temporary file
WriteChunk(fs, json, written) == [fs EXCEPT !.tmp = FileOf(json, written + 1)]

\* NamedTempFile dropped on an early return: the temporary file is removed
DropTemp(fs) == [fs EXCEPT !.tmp = Absent]

\* what std::fs::copy can leave at the backup path: the whole copy on
\* success; on failure the old backup, or a truncated or partial new one
CopyOutcomes(fs, ok) ==
    IF ok THEN {[fs EXCEPT !.backup = fs.session]}
    ELSE {fs} \cup {[fs EXCEPT !.backup = FileOf(fs.session.text, n)] : n \in 0..(JsonLen - 1)}

\* C21 mutant: the backup is copied from session.json after the rename
Persist_thenBackup(fs) == [fs EXCEPT !.session = fs.tmp, !.backup = fs.tmp, !.tmp = Absent]

\* tmp_file.persist(&session_path): rename over session.json
Persist(fs) == [fs EXCEPT !.session = fs.tmp, !.tmp = Absent]

\* read_session on the files as they are
ReadResult(fs) ==
    IF ~fs.session.exists THEN [kind |-> "None", session |-> NoSession]
    ELSE IF Complete(fs.session) /\ FromStr(fs.session.text).ok
         THEN [kind |-> "Some", session |-> FromStr(fs.session.text).val]
         ELSE [kind |-> "Err", session |-> NoSession]

\* write_session_atomic after its first lines: the paths are resolved and the
\* session is serialized, or one of the two has failed
WriteBegun(session, fs, ok) ==
    IF ok
    THEN [NoWrite EXCEPT !.pc = "serialized", !.session = session,
                         !.json = ToStringPretty(session), !.before = fs.session]
    ELSE [NoWrite EXCEPT !.session = session, !.before = fs.session,
                         !.failed = "serialize"]

\* C20 mutant: the backup is removed in place of the session file
RemoveFile_backup(fs) == [fs EXCEPT !.backup = Absent]

\* tokio::fs::remove_file(&session_path)
RemoveFile(fs) == [fs EXCEPT !.session = Absent]

(* ------------------------- storage: actions ---------------------------- *)

\* write_session_atomic up to the serialisation: resolve the two paths
\* (creating the directory) and serialise the session; each can fail
WriteBegin(session) ==
    /\ ~stopped /\ wrOp.pc = "idle"
    /\ \E ok \in BOOLEAN :
         /\ wrOp' = WriteBegun(session, files, ok)
         /\ wrRet' = IF ok THEN "none" ELSE "Err"
    /\ UNCHANGED <<lib, files, lastRead, stopped, hotExit, registry, capVars, resVars>>

\* NamedTempFile::new_in(tmp_dir)
WriteCreateTemp ==
    /\ ~stopped /\ wrOp.pc = "serialized"
    /\ \E ok \in BOOLEAN :
         IF ok
         THEN /\ files' = CreateTemp(files)
              /\ wrOp' = [wrOp EXCEPT !.pc = "writing"]
              /\ UNCHANGED wrRet
         ELSE /\ wrOp' = [wrOp EXCEPT !.pc = "idle", !.failed = "create"]
              /\ wrRet' = "Err"
              /\ UNCHANGED files
    /\ UNCHANGED <<lib, lastRead, stopped, hotExit, registry, capVars, resVars>>

\* tmp_file.write_all: one more chunk reaches the file, or the write fails
\* and the temporary file is dropped
WriteAll ==
    /\ ~stopped /\ wrOp.pc = "writing"
    /\ \E ok \in BOOLEAN :
         IF ok
         THEN /\ files' = WriteChunk(files, wrOp.json, wrOp.written)
              /\ wrOp' = [wrOp EXCEPT !.written = @ + 1,
                                      !.pc = IF wrOp.written + 1 >= JsonLen
                                             THEN "written" ELSE "writing"]
              /\ UNCHANGED wrRet
         ELSE /\ files' = DropTemp(files)
              /\ wrOp' = [wrOp EXCEPT !.pc = "idle", !.failed = "write"]
              /\ wrRet' = "Err"
    /\ UNCHANGED <<lib, lastRead, stopped, hotExit, registry, capVars, resVars>>

\* tmp_file.flush() and then tmp_file.as_file().sync_all()
WriteFlushSync ==
    /\ ~stopped /\ wrOp.pc \in {"written", "flushed"}
    /\ \E ok \in BOOLEAN :
         IF ok
         THEN /\ wrOp' = [wrOp EXCEPT !.pc = IF wrOp.pc = "written" THEN "flushed"
                                              ELSE "synced"]
              /\ UNCHANGED <<files, wrRet>>
         ELSE /\ files' = DropTemp(files)
              /\ wrOp' = [wrOp EXCEPT !.pc = "idle", !.failed = IF wrOp.pc = "written" THEN "flush" ELSE "sync"]
              /\ wrRet' = "Err"
    /\ UNCHANGED <<lib, lastRead, stopped, hotExit, registry, capVars, resVars>>

\* if session_path.exists() { std::fs::copy(&session_path, &backup_path)? }
WriteBackup ==
    /\ ~stopped /\ wrOp.pc = "synced"
    /\ IF files.session.exists
       THEN \E ok \in BOOLEAN : \E fs \in CopyOutcomes(files, ok) :
              IF ok
              THEN /\ files' = fs
                   /\ wrOp' = [wrOp EXCEPT !.pc = "backed_up"]
                   /\ UNCHANGED wrRet
              ELSE /\ files' = DropTemp(fs)
                   /\ wrOp' = [wrOp EXCEPT !.pc = "idle", !.failed = "backup"]
                   /\ wrRet' = "Err"
       ELSE /\ wrOp' = [wrOp EXCEPT !.pc = "backed_up"]
            /\ UNCHANGED <<files, wrRet>>
    /\ UNCHANGED <<lib, lastRead, stopped, hotExit, registry, capVars, resVars>>

\* tmp_file.persist(&session_path): the atomic rename, or its failure
WritePersist ==
    /\ ~stopped /\ wrOp.pc = "backed_up"
    /\ \E ok \in BOOLEAN :
         IF ok
         THEN /\ files' = Persist(files)
              /\ wrOp' = [wrOp EXCEPT !.pc = "idle"]
              /\ wrRet' = "Ok"
         ELSE /\ files' = DropTemp(files)
              /\ wrOp' = [wrOp EXCEPT !.pc = "idle", !.failed = "persist"]
              /\ wrRet' = "Err"
    /\ UNCHANGED <<lib, lastRead, stopped, hotExit, registry, capVars, resVars>>

\* read_session, between writes: None when the file is absent, an error
\* when its content does not parse as a SessionData
ReadSession ==
    /\ ~stopped /\ wrOp.pc = "idle"
    /\ lastRead' = ReadResult(files)
    /\ UNCHANGED <<lib, files, wrOp, wrRet, stopped, hotExit, registry, capVars, resVars>>

\* delete_session, between writes: remove the file if it exists
DeleteSession ==
    /\ ~stopped /\ wrOp.pc = "idle"
    /\ IF files.session.exists
       THEN \E ok \in BOOLEAN : files' = IF ok THEN RemoveFile(files) ELSE files
       ELSE UNCHANGED files
    /\ UNCHANGED <<lib, wrOp, wrRet, lastRead, stopped, hotExit, registry, capVars, resVars>>

\* the process stops between two steps; the files stay as they are
Stop ==
    /\ ~stopped
    /\ stopped' = TRUE
    /\ UNCHANGED <<lib, files, wrOp, wrRet, lastRead, hotExit, registry, capVars, resVars>>

InitStorage ==
    /\ registry = {"main"}
    /\ now = 0
    /\ capPc = [r \in Rounds |-> "idle"]
    /\ capState = [r \in Rounds |-> NoState]
    /\ listeners = {}
    /\ waitResult = [r \in Rounds |-> "none"]
    /\ capRet = [r \in Rounds |-> NoRet]
    /\ requests = {}
    /\ timeoutEvents = {}
    /\ lastOutcome = [r \in Rounds |-> "none"]
    /\ RestoreIdle
    /\ StorageIdle

NextStorage ==
    \/ \E session \in StorageSessions : WriteBegin(session)
    \/ WriteCreateTemp
    \/ WriteAll
    \/ WriteFlushSync
    \/ WriteBackup
    \/ WritePersist
    \/ ReadSession
    \/ DeleteSession
    \/ Stop

SpecStorage == InitStorage /\ [][NextStorage]_vars

(* --------------------------- the commands ------------------------------ *)

\* the SessionData capture_session returned, with the fields the capture
\* fills in the same way every time
SessionOf(ret) ==
    [version |-> ret.version, timestamp |-> ret.timestamp,
     vmark_version |-> CargoPkgVersion, windows |-> ret.windows, workspace |-> None]

\* C18 mutant: the result of the write is not looked at
CommandResult_ignoreWrite(wr_ret, session) == [kind |-> "Ok", session |-> session]

\* what hot_exit_capture returns once write_session_atomic has returned
CommandResult(wr_ret, session) ==
    IF wr_ret = "Ok" THEN [kind |-> "Ok", session |-> session]
    ELSE [kind |-> "Err", session |-> NoSession]

\* hot_exit_capture: capture_session(&app).await? returns the error
HotExitCaptureFailed(r) ==
    /\ hotExit.pc = "capture"
    /\ capPc[r] = "done" /\ capRet[r].kind = "Err"
    /\ hotExit' = [hotExit EXCEPT !.pc = "done", !.kind = "Err"]
    /\ UNCHANGED <<lib, files, wrOp, wrRet, lastRead, stopped, registry, capVars, resVars>>

\* hot_exit_capture: the capture returned a session, write_session_atomic
\* is called with it
HotExitCaptureWrite(r) ==
    /\ hotExit.pc = "capture"
    /\ capPc[r] = "done" /\ capRet[r].kind = "Ok"
    /\ ~stopped /\ wrOp.pc = "idle"
    /\ \E ok \in BOOLEAN :
         /\ wrOp' = WriteBegun(SessionOf(capRet[r]), files, ok)
         /\ wrRet' = IF ok THEN "none" ELSE "Err"
    /\ hotExit' = [hotExit EXCEPT !.pc = "write"]
    /\ UNCHANGED <<lib, files, lastRead, stopped, registry, capVars, resVars>>

\* hot_exit_capture: write_session_atomic(..).await? has returned
HotExitCaptureReturn ==
    /\ hotExit.pc = "write"
    /\ wrOp.pc = "idle"
    /\ hotExit' = [hotExit EXCEPT
                     !.pc = "done",
                     !.kind = CommandResult(wrRet, wrOp.session).kind,
                     !.session = CommandResult(wrRet, wrOp.session).session]
    /\ UNCHANGED <<lib, files, wrOp, wrRet, lastRead, stopped, registry, capVars, resVars>>

\* the files an earlier run has left: none, or a session and its backup
FilesBefore ==
    {[session |-> Absent, backup |-> Absent, tmp |-> Absent],
     [session |-> FileOf(ToStringPretty(SessionTable(2)), JsonLen),
      backup |-> FileOf(ToStringPretty(SessionTable(1)), JsonLen),
      tmp |-> Absent]}

InitHotExit ==
    /\ registry \in {{}, {"settings"}, {"main"}, {"main", "doc-0"}}
    /\ now = 0
    /\ capPc = [r \in Rounds |-> "idle"]
    /\ capState = [r \in Rounds |-> NoState]
    /\ listeners = {}
    /\ waitResult = [r \in Rounds |-> "none"]
    /\ capRet = [r \in Rounds |-> NoRet]
    /\ requests = {}
    /\ timeoutEvents = {}
    /\ lastOutcome = [r \in Rounds |-> "none"]
    /\ RestoreIdle
    /\ files \in FilesBefore
    /\ wrOp = NoWrite
    /\ wrRet = "none"
    /\ lastRead = NoRead
    /\ stopped = FALSE
    /\ hotExit = NoCommand
    /\ lib = NoCall

\* one call of hot_exit_capture
NextHotExit ==
    \/ Tick
    \/ \E r \in SingleRound : CaptureStep(r)
    \/ \E m \in CaptureResponse : DeliverResponse(m)
    \/ \E r \in SingleRound : HotExitCaptureFailed(r)
    \/ \E r \in SingleRound : HotExitCaptureWrite(r)
    \/ WriteCreateTemp
    \/ WriteAll
    \/ WriteFlushSync
    \/ WriteBackup
    \/ WritePersist
    \/ HotExitCaptureReturn

SpecHotExit == InitHotExit /\ [][NextHotExit]_vars

\* hot_exit_clear_session: clear_pending_restore, then delete_session, whose
\* result is the result of the command
HotExitClearSession ==
    /\ ~stopped /\ wrOp.pc = "idle"
    /\ pending' = Clear(pending)
    /\ reported' = {}
    /\ lastPull' = Outdated(lastPull)
    /\ IF files.session.exists
       THEN \E ok \in BOOLEAN :
              /\ files' = IF ok THEN RemoveFile(files) ELSE files
              /\ hotExit' = [hotExit EXCEPT !.cleared = IF ok THEN "Ok" ELSE "Err"]
       ELSE /\ hotExit' = [hotExit EXCEPT !.cleared = "Ok"]
            /\ UNCHANGED files
    /\ UNCHANGED <<lib, registry, windowCounter, resOp, resRet, restoreCount, signals,
                   lastMark, lastPrep, wrOp, wrRet, lastRead, stopped, capVars>>

\* the sessions a capture of this version has saved within the last week
SavedSessions ==
    {session \in SessionInputs :
        /\ session.version = SCHEMA_VERSION
        /\ session.timestamp = RestoreNow - 6 * SECONDS_PER_DAY}

\* a process with the window main or with one document window
InitHandoff ==
    /\ InitRestore
    /\ registry \in {{"main"}, {"doc-99"}}

\* the saved sessions of a capture that main answered: a flagged state first
HandoffSessions ==
    {session \in SavedSessions :
        session.windows # <<>> /\ session.windows[1].is_main_window}

\* the restore operations on such sessions, the windows pulling their state
\* and signalling completion, and the clear, in any interleaving
NextHandoff ==
    \/ \E session \in HandoffSessions : RestoreMultiBegin(session)
    \/ RestoreMultiCreate
    \/ RestoreMultiStage
    \/ \E session \in HandoffSessions : RestoreSingleStage(session)
    \/ RestoreSignal
    \/ \E l \in AllLabels : PullWindowState(l)
    \/ \E l \in AllLabels : MarkWindowRestoreComplete(l)
    \/ ClearPendingRestore

SpecHandoff == InitHandoff /\ [][NextHandoff]_vars

InitSession ==
    /\ registry \in {{"main"}, {"doc-99"}}
    /\ now = 0
    /\ capPc = [r \in Rounds |-> "idle"]
    /\ capState = [r \in Rounds |-> NoState]
    /\ listeners = {}
    /\ waitResult = [r \in Rounds |-> "none"]
    /\ capRet = [r \in Rounds |-> NoRet]
    /\ requests = {}
    /\ timeoutEvents = {}
    /\ lastOutcome = [r \in Rounds |-> "none"]
    /\ RestoreIdle
    /\ files \in FilesBefore
    /\ wrOp = NoWrite
    /\ wrRet = "none"
    /\ lastRead = NoRead
    /\ stopped = FALSE
    /\ hotExit = NoCommand
    /\ lib = NoCall

\* the restore commands, the windows pulling their state, and the commands
\* that inspect and clear the saved session
NextSession ==
    \/ \E session \in SavedSessions : RestoreMultiBegin(session)
    \/ RestoreMultiCreate
    \/ RestoreMultiStage
    \/ \E session \in SavedSessions : RestoreSingleStage(session)
    \/ RestoreSignal
    \/ \E l \in AllLabels : PullWindowState(l)
    \/ ReadSession
    \/ HotExitClearSession

SpecSession == InitSession /\ [][NextSession]_vars

(* ------------------ validation: the functions alone ------------------- *)

\* u32 versions: invalid, the supported one, later ones
LibVersions == {0, 1, 2, 3, 999}

\* i64 timestamps around the age limit, in the future, and at both ends
LibTimestamps ==
    {IntMin, RestoreNow - 8 * SECONDS_PER_DAY, RestoreNow - 7 * SECONDS_PER_DAY,
     RestoreNow - 6 * SECONDS_PER_DAY, RestoreNow, RestoreNow + 1,
     RestoreNow + SECONDS_PER_DAY, IntMax}

\* i64 values of max_age_days: invalid, small, too large to multiply
LibMaxAges == {IntMin, -1, 0, 1, MAX_SESSION_AGE_DAYS, IntMax}

LibSessions == [version : LibVersions, timestamp : LibTimestamps, windows : SessionWindows]

\* can_migrate(session.version)
CallCanMigrate ==
    /\ lib' = [lib EXCEPT !.fn = "can_migrate",
                          !.flag = CanMigrate(lib.session.version)]
    /\ UNCHANGED <<registry, capVars, resVars, stoVars>>

\* migrate_session(session)
CallMigrateSession ==
    /\ lib' = [lib EXCEPT !.fn = "migrate_session",
                          !.ok = MigrateSession(lib.session).ok,
                          !.out = MigrateSession(lib.session).session,
                          !.again = FALSE]
    /\ UNCHANGED <<registry, capVars, resVars, stoVars>>

\* migrate_session applied to the session an earlier call returned
CallMigrateAgain ==
    /\ lib.fn = "migrate_session" /\ lib.ok
    /\ lib' = [lib EXCEPT !.ok = MigrateSession(lib.out).ok,
                          !.out = MigrateSession(lib.out).session,
                          !.again = TRUE]
    /\ UNCHANGED <<registry, capVars, resVars, stoVars>>

\* session.is_stale(max_age_days) at the time lib.clock: where the
\* subtraction overflows, a build with overflow checks panics and a build
\* without them goes on with the wrapped age
CallIsStale ==
    /\ \E overflow_checks \in BOOLEAN :
         IF overflow_checks
            /\ AgeOverflows(lib.session.timestamp, lib.max_age_days, lib.clock)
         THEN lib' = [lib EXCEPT !.fn = "is_stale", !.panicked = TRUE, !.flag = FALSE]
         ELSE lib' = [lib EXCEPT !.fn = "is_stale", !.panicked = FALSE,
                                 !.flag = IsStale(lib.session.timestamp,
                                                  lib.max_age_days, lib.clock)]
    /\ UNCHANGED <<registry, capVars, resVars, stoVars>>

InitLib ==
    /\ registry = {"main"}
    /\ now = 0
    /\ capPc = [r \in Rounds |-> "idle"]
    /\ capState = [r \in Rounds |-> NoState]
    /\ listeners = {}
    /\ waitResult = [r \in Rounds |-> "none"]
    /\ capRet = [r \in Rounds |-> NoRet]
    /\ requests = {}
    /\ timeoutEvents = {}
    /\ lastOutcome = [r \in Rounds |-> "none"]
    /\ RestoreIdle
    /\ files = [session |-> Absent, backup |-> Absent, tmp |-> Absent]
    /\ wrOp = NoWrite
    /\ wrRet = "none"
    /\ lastRead = NoRead
    /\ stopped = FALSE
    /\ hotExit = NoCommand
    /\ \E session \in LibSessions, max_age_days \in LibMaxAges, clock \in {0, RestoreNow} :
         lib = [NoCall EXCEPT !.session = session, !.max_age_days = max_age_days,
                              !.clock = clock]

NextLib ==
    \/ CallCanMigrate
    \/ CallMigrateSession
    \/ CallMigrateAgain
    \/ CallIsStale

SpecLib == InitLib /\ [][NextLib]_vars

(* ------------------------- restore: claims ----------------------------- *)

\* C7: in restore_session_multi_window the re-keyed state of each secondary
\* window is staged before that window is created, so a pull by a window the
\* operation created returns the state prepared for it, never None and never
\* another entry.
C7_StagedBeforeCreated ==
    resOp.op = "multi" =>
        \A i \in DOMAIN resOp.to_store :
            LET l == resOp.to_store[i][1]
            IN  (l # MAIN_WINDOW_LABEL /\ l \in registry /\ lastPull.label = l) =>
                    lastPull.val = <<resOp.to_store[i][2]>>

\* a call of mark_window_restore_complete happens in this step
MarkCalled == lastMark'.flip # lastMark.flip

\* C8: for a staged non-empty expected set E, a completion call by a label of
\* E returns true exactly when every label of E has reported by then: false
\* while some label of E is outstanding, true for the last outstanding one.
C8_LastReportCompletes ==
    [][(/\ MarkCalled
        /\ pending.expected_labels # {}
        /\ lastMark'.label \in pending.expected_labels) =>
            (lastMark'.ret <=> pending.expected_labels \subseteq reported')]_vars

C8_Witness ==
    /\ Cardinality(pending.expected_labels) >= 2
    /\ lastMark.label \in pending.expected_labels \cap reported
    /\ pending.expected_labels \subseteq reported
    /\ lastMark.ret

\* C9: a completion call for a label outside the expected set adds nothing to
\* the completed set, returns true only if all expected labels had completed
\* before it, and returns false while some expected label has not reported.
C9_UnexpectedIgnored ==
    [][(MarkCalled /\ lastMark'.label \notin pending.expected_labels) =>
            /\ pending'.completed_windows = pending.completed_windows
            /\ lastMark'.ret => AllComplete(pending)
            /\ ~(pending.expected_labels \subseteq reported) => ~lastMark'.ret]_vars

C9_Witness ==
    /\ lastMark.label \in reported \ pending.expected_labels
    /\ pending.completed_windows # {}
    /\ pending.completed_windows # pending.expected_labels
    /\ ~lastMark.ret

(* ------------------------- storage: claims ----------------------------- *)

\* C10: a write_session_atomic call that fails at any step (serialization,
\* temp-file creation, write, flush, fsync, backup copy, rename) returns an
\* error and leaves session.json holding exactly what it held when the call
\* began; and in every state, the ones a stop freezes included, session.json
\* is absent or holds the complete text of one session, never a part of one.
C10_AtomicWrite ==
    /\ [](files.session.exists => Complete(files.session))
    /\ [][(wrOp' # wrOp /\ wrOp'.failed # "none") =>
            /\ wrOp'.pc = "idle"
            /\ wrRet' = "Err"
            /\ files'.session = files.session
            /\ files'.session = wrOp'.before]_vars

\* the backup copy failed half-way, the call returned an error, and
\* session.json still holds the complete previous session
C10_Witness ==
    /\ wrOp.failed = "backup" /\ wrOp.pc = "idle" /\ wrRet = "Err"
    /\ Complete(files.session) /\ files.session.text # wrOp.json
    /\ files.session = wrOp.before
    /\ files.backup.exists /\ ~Complete(files.backup)

\* the last write_session_atomic succeeded and nothing was written or
\* deleted since
WrittenAndKept == wrRet = "Ok" /\ wrOp.pc = "idle" /\ files.session.exists

\* every f32 of the session is finite and no block_anchor is Some(null)
JsonExpressible(session) ==
    \A i \in DOMAIN session.windows :
        LET cursor == session.windows[i].content.cursor_info
        IN  cursor # None =>
                /\ cursor[1].percent_in_line \in F32Finite
                /\ cursor[1].block_anchor # Some(JNull)

\* C11 as stated, a valid session being one whose version is not 0: a read
\* after a successful write returns the written session
C11_AsStated ==
    [][(WrittenAndKept /\ wrOp.session.version >= 1 /\ lastRead' # lastRead) =>
            lastRead' = [kind |-> "Some", session |-> wrOp.session]]_vars

\* C11: for a session whose floats are finite and whose block anchors are
\* not Some(null), a successful write_session_atomic followed by
\* read_session, with no write or delete in between, returns Some of a
\* session equal to the written one in every field.
C11_RoundTrip ==
    [][(WrittenAndKept /\ JsonExpressible(wrOp.session) /\ lastRead' # lastRead) =>
            lastRead' = [kind |-> "Some", session |-> wrOp.session]]_vars

\* a session of two windows with a workspace, a cursor and a block anchor was
\* written and read back
C11_Witness ==
    /\ WrittenAndKept
    /\ Len(wrOp.session.windows) = 2 /\ wrOp.session.workspace # None
    /\ wrOp.session.windows[2].content.cursor_info # None
    /\ lastRead = [kind |-> "Some", session |-> wrOp.session]

(* ------------------------- capture: claims ----------------------------- *)

\* the round returned after its wait ended (the request was broadcast)
Returned(r) == capPc[r] = "done" /\ waitResult[r] # "none"

Expected(r) == capState[r].expected_windows

Stored(r) == DOMAIN capState[r].responses

SessionLabels(r) == {capRet[r].windows[i].window_label : i \in DOMAIN capRet[r].windows}

\* the returned session holds exactly the stored states of the labels in ls
HoldsExactly(r, ls) ==
    /\ capRet[r].kind = "Ok"
    /\ Len(capRet[r].windows) = Cardinality(ls)
    /\ SessionLabels(r) = ls
    /\ \A i \in DOMAIN capRet[r].windows :
          capRet[r].windows[i] = capState[r].responses[capRet[r].windows[i].window_label]

SomeFlagged(r) == \E i \in DOMAIN capRet[r].windows : capRet[r].windows[i].is_main_window

\* C1 as stated: when all N enumerated windows responded with the round's id,
\* capture_session returns Ok with exactly N states, one per enumerated label,
\* and the first entry is flagged is_main_window.
C1_AsStated ==
    \A r \in Rounds :
        (Returned(r) /\ Stored(r) = Expected(r)) =>
            /\ HoldsExactly(r, Expected(r))
            /\ capRet[r].windows[1].is_main_window

\* C1 (amended): when all N enumerated windows responded with the round's id,
\* capture_session returns Ok with exactly N states, one per enumerated label,
\* and whenever some returned state is flagged is_main_window the first entry
\* is a flagged one.
C1_AllRespond ==
    \A r \in Rounds :
        (Returned(r) /\ Stored(r) = Expected(r)) =>
            /\ HoldsExactly(r, Expected(r))
            /\ SomeFlagged(r) => capRet[r].windows[1].is_main_window

C1_Witness ==
    \E r \in Rounds :
        /\ Returned(r) /\ Stored(r) = Expected(r)
        /\ Cardinality(Expected(r)) = 3
        /\ capRet[r].windows[1].is_main_window
        /\ capRet[r].windows[1].window_label = "main"
        /\ ~capRet[r].windows[2].is_main_window

\* C2: when the wait ended by the deadline and k of the N expected windows
\* have responded by the time the coordinator stops listening, 0 < k < N,
\* capture_session returns Ok and the session holds exactly the k states of
\* the windows that responded.
C2_PartialOk ==
    \A r \in Rounds :
        (/\ Returned(r) /\ waitResult[r] = "Elapsed"
         /\ Stored(r) # {} /\ Stored(r) # Expected(r)) =>
            HoldsExactly(r, Stored(r))

C2_Witness ==
    \E r \in Rounds :
        /\ Returned(r) /\ waitResult[r] = "Elapsed"
        /\ Cardinality(Expected(r)) = 3 /\ Cardinality(Stored(r)) = 2
        /\ capRet[r].kind = "Ok" /\ Len(capRet[r].windows) = 2

\* C3: when the wait ended by the deadline and no expected window has
\* responded, capture_session returns an error and no session is produced.
C3_NoResponseFails ==
    \A r \in Rounds :
        (Returned(r) /\ waitResult[r] = "Elapsed" /\ Stored(r) = {}) =>
            capRet[r].kind = "Err" /\ capRet[r].windows = <<>>

C3_Witness ==
    \E r \in Rounds :
        /\ Returned(r) /\ waitResult[r] = "Elapsed" /\ Stored(r) = {}
        /\ Cardinality(Expected(r)) >= 2
        /\ capRet[r].err = "Capture timeout: no windows responded"

\* C4: a response whose capture id differs from the id of the round is never
\* stored, so every state the round stores, and every state of the session it
\* returns, came with the round's own capture id.
C4_StaleIgnored ==
    \A r \in Rounds :
        /\ \A l \in DOMAIN capState[r].via : capState[r].via[l] = capState[r].capture_id
        /\ DOMAIN capState[r].via = Stored(r)
        /\ capRet[r].kind = "Ok" => HoldsExactly(r, Stored(r))

C4_Witness ==
    \E r \in Rounds :
        /\ Returned(r) /\ capRet[r].kind = "Ok"
        /\ lastOutcome[r] = "stale"
        /\ Stored(r) # Expected(r)

\* C5: within a round a stored response is never replaced: a later response
\* of the same label changes neither the stored state nor the number of
\* stored responses.
C5_FirstResponseKept ==
    [][\A r \in Rounds :
          /\ \A l \in Stored(r) :
                /\ l \in DOMAIN capState'[r].responses
                /\ capState'[r].responses[l] = capState[r].responses[l]
          /\ (lastOutcome'[r] = "duplicate" /\ lastOutcome[r] # "duplicate") =>
                capState'[r] = capState[r]]_vars

C5_Witness ==
    \E r \in Rounds :
        /\ Returned(r) /\ capRet[r].kind = "Ok"
        /\ lastOutcome[r] = "duplicate"

\* C6: every state of a returned session carries a label of the enumerated
\* set and no label occurs twice; every stored state carries the label it
\* was accepted under, and only enumerated labels are stored.
C6_LabelsExpected ==
    \A r \in Rounds :
        /\ Stored(r) \subseteq Expected(r)
        /\ \A l \in Stored(r) : capState[r].responses[l].window_label = l
        /\ SessionLabels(r) \subseteq Expected(r)
        /\ Cardinality(SessionLabels(r)) = Len(capRet[r].windows)

C6_Witness ==
    \E r \in Rounds :
        /\ Returned(r) /\ capRet[r].kind = "Ok"
        /\ lastOutcome[r] = "normalized"
        /\ Len(capRet[r].windows) >= 2

\* C12: when the registry holds no window labelled main or doc-*, a call of
\* capture_session fails at once with an error: no response listener is
\* registered and no capture request is broadcast.
C12_NoWindowsFails ==
    [][\A r \in Rounds :
          (/\ capPc[r] = "idle" /\ capPc'[r] # "idle"
           /\ ~\E l \in registry : IsDocumentWindow(l)) =>
              /\ capPc'[r] = "done"
              /\ capRet'[r].kind = "Err" /\ capRet'[r].windows = <<>>
              /\ listeners' = listeners
              /\ requests' = requests]_vars

\* only the settings window is open and the call has failed
C12_Witness ==
    /\ registry = {"settings"}
    /\ capPc[1] = "done"
    /\ capRet[1].err = "No document windows to capture"
    /\ listeners = {} /\ requests = {}

\* the session is older than seven days or carries a time yet to come
StaleAtRestore(timestamp) ==
    RestoreNow - timestamp > 7 * 86400 \/ timestamp > RestoreNow

FirstFlaggedOrFirst(windows) ==
    IF \E i \in DOMAIN windows : windows[i].is_main_window
    THEN windows[CHOOSE i \in DOMAIN windows :
                    /\ windows[i].is_main_window
                    /\ \A j \in 1..(i - 1) : ~windows[j].is_main_window]
    ELSE windows[1]

\* C14: the staging of a successful restore_session leaves exactly one staged
\* state, keyed by the label of the resolved target window and with its
\* window_label rewritten to that label; the expected set is {target}, the
\* completed set is empty, and the payload is the session's first entry
\* flagged is_main_window, or its first entry when none is flagged. The emit
\* that completes the operation leaves the structure as staged.
C14_SingleStaging ==
    /\ [][\A session \in SessionInputs :
            (RestoreSingleStage(session) /\ resOp'.op = "single") =>
                LET target == resOp'.target
                IN  /\ target \in registry /\ IsDocumentWindow(target)
                    /\ MAIN_WINDOW_LABEL \in registry => target = MAIN_WINDOW_LABEL
                    /\ DOMAIN pending'.window_states = {target}
                    /\ pending'.window_states[target] =
                           [FirstFlaggedOrFirst(session.windows) EXCEPT
                               !.window_label = target]
                    /\ pending'.expected_labels = {target}
                    /\ pending'.completed_windows = {}]_vars
    /\ [][(resOp.op = "single" /\ resOp'.op = "none") => pending' = pending]_vars

\* restore_session has succeeded for a window other than main, with the state
\* of a session whose second entry is the flagged one
C14_Witness ==
    /\ resRet.kind = "Ok" /\ resOp.op = "none"
    /\ pending.expected_labels = {"doc-99"}
    /\ DOMAIN pending.window_states = {"doc-99"}
    /\ pending.window_states["doc-99"] =
           [window_label |-> "doc-99", is_main_window |-> TRUE, content |-> PayloadB]

\* the labels in a sequence
Labels(seq) == {seq[i] : i \in DOMAIN seq}

\* C15: the staging of restore_session_multi_window sets the expected set to
\* main together with exactly the labels of the secondary windows the
\* operation created; when it returns Ok, windows_created lists exactly those
\* labels, each once; and a failed creation never makes the operation fail.
C15_CreatedAreExpected ==
    /\ [][(resOp.op = "multi" /\ resOp.pc = "creating" /\ resOp'.pc = "signal") =>
            pending'.expected_labels =
                {MAIN_WINDOW_LABEL} \cup (registry \ resOp.registry_before)]_vars
    /\ [][(resOp.op = "multi" /\ resOp'.op = "none" /\ resRet'.kind = "Ok") =>
            /\ Labels(resRet'.windows_created) = registry \ resOp.registry_before
            /\ Len(resRet'.windows_created) = Cardinality(registry \ resOp.registry_before)]_vars
    /\ [][(resOp.op = "multi" /\ windowCounter' # windowCounter) =>
            resOp'.op = "multi" /\ resRet' = resRet]_vars

\* of two secondary windows the first could not be created and the second
\* could; the operation returned Ok naming the second alone
C15_Witness ==
    /\ resRet.kind = "Ok" /\ resOp.op = "none"
    /\ windowCounter = 2 /\ "doc-0" \notin registry /\ "doc-1" \in registry
    /\ resRet.windows_created = <<"doc-1">>
    /\ pending.expected_labels = {"main", "doc-1"}

\* C16: get_window_restore_state changes neither the staged states nor the
\* expected set nor the completed set, and as long as nothing is staged or
\* cleared a further pull for the same label returns what the last one did.
C16_PullIsReadOnly ==
    /\ [][\A l \in AllLabels : PullWindowState(l) => pending' = pending]_vars
    /\ [](lastPull.fresh =>
            GetWindowRestoreState(pending, lastPull.label) = lastPull.val)

\* a created window has pulled its staged state, which is still staged
C16_Witness ==
    /\ lastPull.fresh /\ lastPull.label = "doc-0"
    /\ lastPull.val # <<>>
    /\ "doc-0" \in DOMAIN pending.window_states
    /\ pending.window_states["doc-0"] = lastPull.val[1]

\* a restore operation stages in this step
StagingStep ==
    \/ resOp.op = "multi" /\ resOp.pc = "creating" /\ resOp'.pc = "signal"
    \/ resOp.op = "none" /\ resOp'.op = "single"

\* the labels the staging of this step stages a state for
StagedNow ==
    IF resOp.op = "multi" THEN {resOp.to_store[i][1] : i \in DOMAIN resOp.to_store}
    ELSE {resOp'.target}

\* C17: a staging first clears the structure: afterwards it holds staged
\* states only for the labels of the new round, the expected set of the new
\* round and an empty completed set; a label staged only in an earlier round
\* pulls None, and completions of earlier rounds do not make "all done" true.
C17_StagingClears ==
    [][StagingStep =>
          /\ DOMAIN pending'.window_states = StagedNow
          /\ \A l \in AllLabels \ StagedNow : GetWindowRestoreState(pending', l) = None
          /\ pending'.expected_labels = resOp'.expected \cup {resOp'.target}
          /\ pending'.completed_windows = {}
          /\ ~AllComplete(pending')]_vars

\* in a first round main and doc-0 completed; a second round has staged for
\* main alone, and nothing of doc-0 is left
C17_Witness ==
    /\ restoreCount = 2 /\ resOp.op = "single" /\ resOp.pc = "signal"
    /\ lastMark.label = "doc-0" /\ lastMark.ret
    /\ DOMAIN pending.window_states = {"main"}
    /\ pending.expected_labels = {"main"}
    /\ pending.completed_windows = {}

\* C18: hot_exit_capture returns Ok(session) only when session.json holds
\* the complete text of that session, which is the one capture_session
\* returned; and until the capture has returned a session nothing is written:
\* when the capture fails, session.json and its backup are as they were and
\* the command returns the error.
C18_CaptureThenPersist ==
    /\ []((hotExit.pc = "done" /\ hotExit.kind = "Ok") =>
            /\ hotExit.session = SessionOf(capRet[1])
            /\ files.session = FileOf(ToStringPretty(hotExit.session), JsonLen))
    /\ []((hotExit.pc = "done" /\ capRet[1].kind = "Err") => hotExit.kind = "Err")
    /\ [][(capPc'[1] # "done" \/ capRet'[1].kind # "Ok") =>
            (files' = files /\ wrOp' = NoWrite)]_vars

\* the command returned a session of two windows that is on disk, and the
\* session of the earlier run has become the backup
C18_Witness ==
    /\ hotExit.pc = "done" /\ hotExit.kind = "Ok"
    /\ Len(hotExit.session.windows) = 2
    /\ files.session.text = ToStringPretty(hotExit.session)
    /\ files.backup = FileOf(ToStringPretty(SessionTable(2)), JsonLen)

\* C19: when a restore operation (restore_session or
\* restore_session_multi_window) returns Ok, session.json no longer exists
\* and read_session returns None.
C19_RestoreConsumes ==
    [][(resOp.pc = "signal" /\ resRet'.kind = "Ok") =>
        (~files'.session.exists /\ ReadResult(files').kind = "None")]_vars

C21_BackupBeforeRename ==
    [][(wrOp.pc = "backed_up" /\ wrRet' = "Ok" /\ wrOp.before.exists) =>
            /\ files.backup = wrOp.before
            /\ files.session = wrOp.before
            /\ files'.backup = wrOp.before
            /\ files'.session = FileOf(ToStringPretty(wrOp.session), JsonLen)]_vars

\* a second write has succeeded: the backup holds the session of the first
\* write and session.json holds a different, new one
C21_Witness ==
    /\ wrRet = "Ok" /\ wrOp.pc = "idle"
    /\ wrOp.before.exists
    /\ files.backup = wrOp.before
    /\ files.session = FileOf(wrOp.json, JsonLen)
    /\ files.session.text # files.backup.text

(* ----------------------- validation: claims ---------------------------- *)

\* C22: can_migrate(v) is true exactly for the versions v with
\* MIN_SUPPORTED_VERSION <= v <= SCHEMA_VERSION; it is false for 0 and for
\* SCHEMA_VERSION + 1.
C22_CanMigrateRange ==
    lib.fn = "can_migrate" =>
        lib.flag = (/\ MIN_SUPPORTED_VERSION <= lib.session.version
                    /\ lib.session.version <= SCHEMA_VERSION)

\* can_migrate has answered false for the version after the current one
C22_Witness ==
    /\ lib.fn = "can_migrate"
    /\ lib.session.version = SCHEMA_VERSION + 1
    /\ ~lib.flag

\* C23: migrate_session fails exactly when can_migrate of the version is
\* false; otherwise it returns the session with the current schema version
\* and every other field as given, a session at the current version comes
\* back unchanged, and migrating the result again changes nothing.
C23_MigrateSession ==
    lib.fn = "migrate_session" =>
        /\ lib.ok = CanMigrate(lib.session.version)
        /\ lib.ok => lib.out = [lib.session EXCEPT !.version = SCHEMA_VERSION]
        /\ (lib.ok /\ lib.session.version = SCHEMA_VERSION) => lib.out = lib.session

\* a session of two windows at the current version was migrated twice
C23_Witness ==
    /\ lib.fn = "migrate_session" /\ lib.again /\ lib.ok
    /\ Len(lib.session.windows) = 2
    /\ lib.out = lib.session

\* C24: is_stale returns true whenever max_age_days <= 0, whatever the
\* timestamp, and whenever the timestamp is later than the current time,
\* whatever max_age_days.
C24_StaleGuards ==
    lib.fn = "is_stale" =>
        /\ lib.max_age_days <= 0 => lib.flag
        /\ lib.session.timestamp > lib.clock => lib.flag

\* is_stale has answered true for a timestamp one second ahead of the clock
\* with the largest max_age_days
C24_Witness ==
    /\ lib.fn = "is_stale" /\ lib.flag
    /\ lib.session.timestamp = lib.clock + 1
    /\ lib.max_age_days = IntMax

(* ------------------- capture: ordering and liveness -------------------- *)

\* the round has broadcast its request and its wait has not ended
Waiting(r) == capPc[r] \in {"polling", "sleeping"}

\* C25: in every capture round the listener is registered when the request
\* is broadcast and stays registered while the round waits, so a response
\* with the round's id from an expected window that is sent at any moment
\* from the broadcast on, while the round waits, is handled by the
\* listener: its state is stored, unless one of that window is stored already.
C25_ListenBeforeBroadcast ==
    /\ [](\A r \in Rounds : (capPc[r] = "listening" \/ Waiting(r)) => r \in listeners)
    /\ [][\A r \in Rounds :
            (capPc[r] = "listening" /\ capPc'[r] = "polling") =>
                /\ r \in listeners /\ r \in listeners'
                /\ capState[r].capture_id \in requests']_vars
    /\ [](\A r \in Rounds :
            Waiting(r) =>
                \A m \in CaptureResponse :
                    (/\ m.parses
                     /\ m.capture_id = capState[r].capture_id
                     /\ m.window_label \in capState[r].expected_windows) =>
                        LET after == Delivered(listeners, capState, m)[r].responses
                        IN  /\ m.window_label \in DOMAIN after
                            /\ m.window_label \notin DOMAIN capState[r].responses =>
                                   after[m.window_label] =
                                       NormalizeWindowLabel(m.state, m.window_label))

\* the request is out, the round waits with its listener registered, and
\* the responses of both expected windows are stored
C25_Witness ==
    \E r \in Rounds :
        /\ Waiting(r) /\ r \in listeners
        /\ capState[r].capture_id \in requests
        /\ Cardinality(capState[r].expected_windows) = 2
        /\ DOMAIN capState[r].responses = capState[r].expected_windows

\* the round has registered its listener at some time
Started(r) == capState[r].capture_id # NoState.capture_id

\* C26: on every exit path of capture_session taken after the listener was
\* registered the listener is unregistered before the function returns, and
\* once a round has returned, a response to its request (one that carries
\* its capture id) that arrives later changes the collected responses of no
\* round.
C26_ListenerReleased ==
    /\ \A r \in Rounds : capPc[r] \in {"unlistened", "building", "done"} => r \notin listeners
    /\ \A r \in Rounds :
          (capPc[r] = "done" /\ Started(r)) =>
              \A m \in WindowResponses :
                  m.capture_id = capState[r].capture_id =>
                      \A q \in Rounds :
                          Delivered(listeners, capState, m)[q].responses =
                              capState[q].responses

\* C30: the capture ids of any two rounds the process has started differ, so
\* a response that carries the id of one round is a stale response for
\* every other round.
C30_UniqueCaptureIds ==
    \A r, q \in Rounds :
        (r # q /\ Started(r) /\ Started(q)) =>
            /\ capState[r].capture_id # capState[q].capture_id
            /\ \A m \in WindowResponses :
                  m.capture_id = capState[r].capture_id => IsStaleResponse(capState[q], m)

(* -------------------- restore: order of the signal --------------------- *)

\* the restore operation in flight emits EVENT_RESTORE_START and returns Ok
SignalStep == resOp.pc = "signal" /\ resOp'.op = "none" /\ resRet'.kind = "Ok"

\* C27: in both restore operations EVENT_RESTORE_START is emitted only once
\* the staging of the round is complete: the signal goes to the target
\* window from the position after the staging call and nowhere else, and
\* unless the structure was cleared in between, at the emission it holds the
\* expected labels and every state of this round, so the pull of the target
\* window returns the state staged for it.
C27_SignalAfterStaging ==
    /\ [][signals' # signals => (SignalStep /\ signals' = signals \cup {resOp.target})]_vars
    /\ [][(SignalStep /\ pending.expected_labels # {}) =>
            /\ pending' = pending
            /\ resOp.op = "multi" =>
                   /\ pending.expected_labels = resOp.expected
                   /\ pending.window_states = InsertAll(<<>>, resOp.to_store)
                   /\ resOp.to_store # <<>> =>
                          GetWindowRestoreState(pending, resOp.target) =
                              Some(resOp.to_store[1][2])
            /\ resOp.op = "single" =>
                   /\ pending.expected_labels = {resOp.target}
                   /\ DOMAIN pending.window_states = {resOp.target}
                   /\ GetWindowRestoreState(pending, resOp.target) # None
                   /\ pending.window_states[resOp.target].window_label = resOp.target]_vars

\* the multi-window restore created a window, signalled main and returned
\* Ok, and main's pull after the staging returned its state
C27_Witness ==
    /\ resRet.kind = "Ok" /\ Len(resRet.windows_created) >= 1
    /\ "main" \in signals
    /\ lastPull.fresh /\ lastPull.label = "main"
    /\ lastPull.val # None /\ lastPull.val[1].window_label = "main"

\* C28: every call of capture_session returns: a round that has begun
\* reaches its return, and a round that sleeps in the wait loop leaves the
\* wait, by the deadline when the windows it expects never all respond.
C28_CaptureReturns ==
    \A r \in SingleRound :
        /\ (capPc[r] # "idle") ~> (capPc[r] = "done")
        /\ (capPc[r] = "sleeping") ~> (waitResult[r] # "none")

\* three windows were expected, none responded, the deadline ended the wait
\* and the call returned the timeout error
C28_Witness ==
    \E r \in SingleRound :
        /\ capPc[r] = "done" /\ waitResult[r] = "Elapsed"
        /\ Cardinality(capState[r].expected_windows) = 3
        /\ capState[r].responses = <<>>
        /\ capRet[r].kind = "Err"

(* ------------------------- capture: the order -------------------------- *)

\* C29: in every session capture_session returns, after all windows
\* responded or after a timeout, no entry that is not flagged is_main_window
\* stands before a flagged one, two entries with the same flag stand in
\* ascending order of their labels, and the list is the same for every
\* order in which the stored responses can be collected.
C29_DeterministicOrder ==
    \A r \in Rounds :
        capRet[r].kind = "Ok" =>
            /\ \A i, j \in DOMAIN capRet[r].windows :
                  i < j =>
                      /\ ~(~capRet[r].windows[i].is_main_window
                            /\ capRet[r].windows[j].is_main_window)
                      /\ (capRet[r].windows[i].is_main_window
                             = capRet[r].windows[j].is_main_window) =>
                            LabelLess(capRet[r].windows[i].window_label,
                                      capRet[r].windows[j].window_label)
            /\ \A ord \in ValueOrders(capState[r].responses) :
                  SortWindows(CollectValues(capState[r].responses, ord)) = capRet[r].windows

\* three windows answered, doc-0 and main both flagged: the session lists
\* doc-0, main and then the unflagged doc-1
C29_Witness ==
    \E r \in Rounds :
        /\ capRet[r].kind = "Ok" /\ Len(capRet[r].windows) = 3
        /\ capRet[r].windows[1].window_label = "doc-0"
        /\ capRet[r].windows[1].is_main_window
        /\ capRet[r].windows[2].window_label = "main"
        /\ capRet[r].windows[2].is_main_window
        /\ capRet[r].windows[3].window_label = "doc-1"
        /\ ~capRet[r].windows[3].is_main_window

(* -------------------- capture: the timeout notification ---------------- *)

\* C31: a session that holds fewer states than windows were expected is
\* returned only after EVENT_CAPTURE_TIMEOUT was emitted in its round, and
\* once all expected windows have responded while the wait has not yet
\* ended, the round never emits EVENT_CAPTURE_TIMEOUT.
C31_TimeoutNotification ==
    /\ [](\A r \in Rounds :
            (/\ capRet[r].kind = "Ok"
             /\ Len(capRet[r].windows) < Cardinality(capState[r].expected_windows))
                => r \in timeoutEvents)
    /\ [](\A r \in Rounds :
            (/\ capPc[r] \in {"polling", "sleeping"}
             /\ AllResponsesIn(capState[r], Cardinality(capState[r].expected_windows)))
                => [](r \notin timeoutEvents))

(* --------------------- restore: the target window ---------------------- *)

\* C32: while restore_session is between staging and signal, its target is
\* main when main is open, and otherwise an open window whose label starts
\* with doc-; a call with a valid session fails with "No document window
\* found for restore" when neither is open, and a call with a session that
\* holds no window state fails.
C32_RestoreTarget ==
    /\ resOp.op = "single" =>
          /\ resOp.target \in registry
          /\ MAIN_WINDOW_LABEL \in registry => resOp.target = MAIN_WINDOW_LABEL
          /\ MAIN_WINDOW_LABEL \notin registry => StartsWithDoc(resOp.target)
    /\ (/\ lastPrep.op = "single" /\ lastPrep.ok
        /\ MAIN_WINDOW_LABEL \notin registry
        /\ ~\E l \in registry : StartsWithDoc(l))
          => resRet = ErrResult("No document window found for restore")
    /\ (lastPrep.op = "single" /\ lastPrep.empty) =>
          /\ resOp.op = "none"
          /\ resRet.kind = "Err"
          /\ (lastPrep.ok /\ TargetWindows(registry) # {})
                => resRet = ErrResult("No window state in session")

\* restore_session has staged for main while a doc- window is open as well
C32_Witness ==
    /\ resOp.op = "single" /\ resOp.target = MAIN_WINDOW_LABEL
    /\ \E l \in registry : StartsWithDoc(l)
    /\ MAIN_WINDOW_LABEL \in DOMAIN pending.window_states

(* --------------------- validation: the age limit ----------------------- *)

\* C33: a call of is_stale with max_age_days > 0 and a timestamp not later
\* than the clock returns, and it returns true exactly when the age
\* clock - timestamp is greater than max_age_days * 86400 where that product
\* fits a signed 64-bit integer, and true where it does not fit.
C33_StaleThreshold ==
    (/\ lib.fn = "is_stale"
     /\ lib.max_age_days > 0
     /\ lib.session.timestamp <= lib.clock) =>
        /\ ~lib.panicked
        /\ IF lib.max_age_days <= IntMax \div SECONDS_PER_DAY
           THEN lib.flag <=>
                  (lib.clock - lib.session.timestamp > lib.max_age_days * SECONDS_PER_DAY)
           ELSE lib.flag

\* C40: a call of is_stale never panics, and where it computes the age the
\* difference clock - timestamp is within the range of a signed 64-bit
\* integer, so that no wrapped age is used.
C40_AgeWithoutOverflow ==
    lib.fn = "is_stale" =>
        /\ ~lib.panicked
        /\ ~AgeOverflows(lib.session.timestamp, lib.max_age_days, lib.clock)

(* ------------------ restore: one state, one window --------------------- *)

\* the contents of the window states in a sequence of (label, state) pairs
StagedContents(pairs) == {pairs[i][2].content : i \in DOMAIN pairs}

\* C34: in restore_session_multi_window no two of the (label, state) pairs
\* collected for staging hold the state of the same window of the input
\* session, and after the staging no two labels of the pending-restore
\* structure hold the same window's state.
C34_StagedOnce ==
    resOp.op = "multi" =>
        /\ \A j, k \in DOMAIN resOp.to_store :
              j # k => resOp.to_store[j][2].content # resOp.to_store[k][2].content
        /\ resOp.pc = "signal" =>
              \A l1, l2 \in DOMAIN pending.window_states :
                  l1 # l2 => pending.window_states[l1].content
                               # pending.window_states[l2].content

\* C35: when restore_session_multi_window has staged, every window state of
\* the input session is among the staged pairs or is one whose window could
\* not be created.
C35_NoWindowLost ==
    (resOp.op = "multi" /\ resOp.pc = "signal") =>
        \A i \in 1..resOp.session_windows :
            \/ PayloadAt[i] \in StagedContents(resOp.to_store)
            \/ \E d \in DOMAIN resOp.dropped : resOp.dropped[d].content = PayloadAt[i]

(* --------------------- restore: errors and state ----------------------- *)

\* C36: a call of restore_session or restore_session_multi_window that
\* returns an error has not changed the pending-restore structure and has
\* created no window: this holds for a call that fails at once and for a call
\* that fails at the signal.
C36_ErrorLeavesState ==
    /\ [][(restoreCount' # restoreCount /\ resRet'.kind = "Err") =>
            /\ pending' = pending
            /\ registry' = registry
            /\ windowCounter' = windowCounter]_vars
    /\ [][(resOp.pc = "signal" /\ resRet'.kind = "Err") =>
            /\ ~resOp.restaged
            /\ registry' = resOp.registry_before]_vars

\* C36 as amended: every error of the two restore operations other than the
\* failed emit of the restore-start signal is returned by the step that
\* began the call, and that step leaves the pending-restore structure, the
\* open windows and the window counter as they were.
C36_EarlyErrorLeavesState ==
    /\ [][(restoreCount' # restoreCount /\ resRet'.kind = "Err") =>
            /\ pending' = pending
            /\ registry' = registry
            /\ windowCounter' = windowCounter]_vars
    /\ [][(resRet' # resRet /\ resRet'.kind = "Err"
           /\ resRet'.err # "Failed to emit restore event") =>
            restoreCount' # restoreCount]_vars

\* restore_session_multi_window failed for want of the main window while the
\* state an earlier restore_session staged for doc-99 is still in place
C36_Witness ==
    /\ lastPrep.op = "multi"
    /\ resRet = ErrResult("Main window not found")
    /\ pending.expected_labels = {"doc-99"}
    /\ "doc-99" \in DOMAIN pending.window_states

(* ------------------- capture: rounds in flight together ---------------- *)

\* C37: of two started rounds with different capture ids, each holds only
\* responses that carried its own id, the session it returns lists only
\* states it holds, and a response carrying the other round's id leaves its
\* CaptureState as it is, whether or not the two rounds listen at the same
\* time.
C37_RoundsIsolated ==
    \A r, q \in Rounds :
        (r # q /\ Started(r) /\ Started(q)
              /\ capState[r].capture_id # capState[q].capture_id) =>
            /\ \A l \in DOMAIN capState[r].responses :
                  capState[r].via[l] = capState[r].capture_id
            /\ capRet[r].kind = "Ok" =>
                  \A i \in DOMAIN capRet[r].windows :
                      /\ capRet[r].windows[i].window_label \in DOMAIN capState[r].responses
                      /\ capRet[r].windows[i] =
                            capState[r].responses[capRet[r].windows[i].window_label]
            /\ \A m \in WindowResponses :
                  m.capture_id = capState[q].capture_id =>
                      Delivered(listeners, capState, m)[r] = capState[r]

\* two rounds with different ids listen at the same time and each holds a
\* response; the last response was stored by the second round and was stale
\* for the first
C37_Witness ==
    /\ {1, 2} \subseteq listeners
    /\ capState[1].capture_id # capState[2].capture_id
    /\ capState[1].responses # <<>> /\ capState[2].responses # <<>>
    /\ lastOutcome[1] = "stale" /\ lastOutcome[2] = "stored"

(* ------------------- restore: the handoff structure -------------------- *)

\* C38: in every state reached by restore operations, pulls, completion
\* calls and clears in any interleaving, the completed set is a subset of
\* the expected set, every label with a staged state is expected, and the
\* structure is never half-staged: an expected label without a staged state
\* can only be main, each staged state carries the label it is staged under,
\* and a state returned by a pull since the last staging or clear is the one
\* staged under the caller's label, which is expected.
C38_HandoffConsistent ==
    /\ pending.completed_windows \subseteq pending.expected_labels
    /\ DOMAIN pending.window_states \subseteq pending.expected_labels
    /\ pending.expected_labels \ DOMAIN pending.window_states \subseteq {MAIN_WINDOW_LABEL}
    /\ \A l \in DOMAIN pending.window_states : pending.window_states[l].window_label = l
    /\ (lastPull.fresh /\ lastPull.val # <<>>) =>
          /\ lastPull.label \in pending.expected_labels
          /\ lastPull.val = <<pending.window_states[lastPull.label]>>

\* during a second restore, after a clear: two labels are expected, one has
\* completed, and the last pull returned a staged state
C38_Witness ==
    /\ restoreCount = 2
    /\ Cardinality(pending.expected_labels) = 2
    /\ Cardinality(pending.completed_windows) = 1
    /\ lastPull.fresh /\ lastPull.val # <<>>
    /\ lastPull.label \notin pending.completed_windows

\* C39: a call of mark_window_restore_complete made while the expected set
\* is empty, before any staging or after a clear, returns false and leaves
\* the structure empty, whatever window calls.
C39_EmptyNeverComplete ==
    [][(MarkCalled /\ pending.expected_labels = {}) =>
          /\ ~lastMark'.ret
          /\ pending' = pending]_vars

\* a restore was staged and returned, the structure was cleared, and main
\* then reported completion and got false
C39_Witness ==
    /\ restoreCount >= 1 /\ resRet.kind = "Ok" /\ resOp.op = "none"
    /\ pending = EmptyPending
    /\ reported = {MAIN_WINDOW_LABEL}
    /\ lastMark.label = MAIN_WINDOW_LABEL /\ ~lastMark.ret

====
